---- MODULE Spec2Model ----
(***************************************************************************)
(* A model of scripts/barcode_ocr_match.py: the OCR-to-barcode             *)
(* reconciliation engine.  Python strings are sequences of one-character   *)
(* strings, so that every regular expression of the source is modelled by  *)
(* what it does to the characters.                                         *)
(***************************************************************************)
EXTENDS Integers, Sequences, FiniteSets, TLC

(***************************************************************************)
(* Characters                                                              *)
(***************************************************************************)
UpperSeq == <<"A","B","C","D","E","F","G","H","I","J","K","L","M",
              "N","O","P","Q","R","S","T","U","V","W","X","Y","Z">>
LowerSeq == <<"a","b","c","d","e","f","g","h","i","j","k","l","m",
              "n","o","p","q","r","s","t","u","v","w","x","y","z">>
DigitSeq == <<"0","1","2","3","4","5","6","7","8","9">>

Upper == {UpperSeq[k] : k \in 1..26}
Lower == {LowerSeq[k] : k \in 1..26}
Digit == {DigitSeq[k] : k \in 1..10}
Letter == Upper \cup Lower
\* ALNUM = r"[A-Za-z0-9]"
ALNUM == Letter \cup Digit
\* \s of the re module on the characters the model uses
Space == {" ", "\t", "\n", "\r"}
\* \w of the re module: what \b is defined by
WordChar == ALNUM \cup {"_"}
\* [A-Za-z0-9 /#\-\(\)]: the characters of a label after its first letter
LabelChar == ALNUM \cup {" ", "/", "#", "-", "(", ")"}

IndexIn(c, seq) == CHOOSE k \in 1..Len(seq) : seq[k] = c
ToUpper(c) == IF c \in Lower THEN UpperSeq[IndexIn(c, LowerSeq)] ELSE c
ToLower(c) == IF c \in Upper THEN LowerSeq[IndexIn(c, UpperSeq)] ELSE c
DigitVal(c) == IndexIn(c, DigitSeq) - 1

(***************************************************************************)
(* Strings                                                                 *)
(***************************************************************************)
Min(a, b) == IF a <= b THEN a ELSE b

\* s[i:j] with 1-based inclusive bounds; empty when j < i
Slice(s, i, j) == IF j < i THEN <<>> ELSE SubSeq(s, i, j)

\* str.upper() and str.lower()
upper(s) == [k \in 1..Len(s) |-> ToUpper(s[k])]
lower(s) == [k \in 1..Len(s) |-> ToLower(s[k])]

\* the least p in from..Len(s)+1 with s[p] not in cls (Len(s)+1 when none)
RECURSIVE SkipWhile(_, _, _)
SkipWhile(s, from, cls) ==
    IF from <= Len(s) /\ s[from] \in cls THEN SkipWhile(s, from + 1, cls) ELSE from

\* the greatest p in 0..upto with s[p] not in cls (0 when none)
RECURSIVE SkipBack(_, _, _)
SkipBack(s, upto, cls) ==
    IF upto >= 1 /\ s[upto] \in cls THEN SkipBack(s, upto - 1, cls) ELSE upto

\* str.strip()
strip(s) == Slice(s, SkipWhile(s, 1, Space), SkipBack(s, Len(s), Space))

\* int(digits)
RECURSIVE IntOf(_)
IntOf(s) == IF s = <<>> THEN 0
            ELSE 10 * IntOf(SubSeq(s, 1, Len(s) - 1)) + DigitVal(s[Len(s)])

\* re.sub(cls+, " ", s): every maximal run of characters of cls becomes one space
RECURSIVE SubRuns(_, _, _)
SubRuns(s, from, cls) ==
    IF from > Len(s) THEN <<>>
    ELSE IF s[from] \in cls
         THEN <<" ">> \o SubRuns(s, SkipWhile(s, from, cls), cls)
         ELSE <<s[from]>> \o SubRuns(s, from + 1, cls)

\* \b at the gap before position p (1 <= p <= Len(s)+1)
Boundary(s, p) ==
    (p > 1 /\ s[p - 1] \in WordChar) # (p <= Len(s) /\ s[p] \in WordChar)

\* the least element of a non-empty set of integers
MinOf(S) == CHOOSE x \in S : \A y \in S : x <= y
MaxOf(S) == CHOOSE x \in S : \A y \in S : x >= y

(***************************************************************************)
(* Utilities (normalisers)                                                 *)
(***************************************************************************)
norm_text(s) == strip(SubRuns(s, 1, Space))

norm_case_space(s) == upper(norm_text(s))

norm_label(s) ==
    LET l == lower(s)
        chars == {l[k] : k \in 1..Len(l)}
        other == chars \ (Lower \cup Digit)
    IN strip(SubRuns(l, 1, other))

(***************************************************************************)
(* Time and date normalisation                                             *)
(*                                                                         *)
(* A value computed once and read several times is handed on as the        *)
(* parameter of the next definition, so that it is evaluated once.         *)
(***************************************************************************)
\* Python's None, for the optional tuples and the optional meridian
None == <<>>
MerNone == "none"

\* FULL_TIME_RX after the seconds: \s*(AM|PM)?\s*$ from p4, the first
\* character after the white space that follows the seconds
FullTimeTail(s, p0, p1, hasS, p4) ==
    LET n == Len(s)
        hasMer == p4 + 1 <= n /\ s[p4] \in {"A", "a", "P", "p"} /\ s[p4 + 1] \in {"M", "m"}
        p5 == IF hasMer THEN p4 + 2 ELSE p4
    IN IF SkipWhile(s, p5, Space) = n + 1
       THEN << Slice(s, p0, p1 - 1), Slice(s, p1 + 1, p1 + 2),
               IF hasS THEN Slice(s, p1 + 4, p1 + 5) ELSE <<>>,
               IF hasMer THEN Slice(s, p4, p4 + 1) ELSE <<>> >>
       ELSE None

\* FULL_TIME_RX from the hour on: (\d{1,2}):(\d{2})(?::(\d{2}))? with the hour's
\* digits at p0..p1-1
FullTimeHour(s, p0, p1) ==
    LET n == Len(s)
        hOk == (p1 - p0) \in {1, 2} /\ p1 <= n /\ s[p1] = ":"
        mOk == p1 + 2 <= n /\ s[p1 + 1] \in Digit /\ s[p1 + 2] \in Digit
        p2 == p1 + 3
        hasS == p2 + 2 <= n /\ s[p2] = ":" /\ s[p2 + 1] \in Digit /\ s[p2 + 2] \in Digit
        p3 == IF hasS THEN p2 + 3 ELSE p2
    IN IF hOk /\ mOk THEN FullTimeTail(s, p0, p1, hasS, SkipWhile(s, p3, Space)) ELSE None

FullTimeFrom(s, p0) == FullTimeHour(s, p0, SkipWhile(s, p0, Digit))

\* FULL_TIME_RX: ^\s*(\d{1,2}):(\d{2})(?::(\d{2}))?\s*(AM|PM)?\s*$ with re.I,
\* as fullmatch uses it.  The groups <<hh, mm, ss, mer>> as strings, or None.
FullTimeGroups(s) == FullTimeFrom(s, SkipWhile(s, 1, Space))

FULL_TIME_RX_fullmatch(s) == FullTimeGroups(s) # None

\* TimeTuple24 with the exception at 12 PM dropped: PM always adds 12
TimeTuple24_PmAlwaysAdds(hh, mm, ss, mer) ==
    LET h24 == IF mer = "PM" THEN hh + 12
               ELSE IF mer = "AM" /\ hh = 12 THEN 0
               ELSE hh
    IN <<h24, mm, ss, mer>>

\* lines 127-130: the 24-hour tuple of the parsed groups
TimeTuple24(hh, mm, ss, mer) ==
    LET h24 == IF mer = "PM" /\ hh # 12 THEN hh + 12
               ELSE IF mer = "AM" /\ hh = 12 THEN 0
               ELSE hh
    IN <<h24, mm, ss, mer>>

\* lines 123-126: the groups as numbers, the meridian in upper case or None
TimeTupleOf(g) ==
    IF g = None THEN None
    ELSE TimeTuple24(IntOf(g[1]), IntOf(g[2]), IntOf(g[3]),
                     IF g[4] = <<>> THEN MerNone
                     ELSE IF g[4][1] \in {"A", "a"} THEN "AM" ELSE "PM")

norm_time_tuple_full(s) ==
    IF s = <<>> THEN None ELSE TimeTupleOf(FullTimeGroups(s))

\* TimesEqual without lines 140-142: a meridian on one side only is let through
TimesEqual_OneSidedMeridian(A, B) ==
    IF A = None \/ B = None THEN FALSE
    ELSE IF A[4] # MerNone /\ B[4] # MerNone /\ A[4] # B[4]
         THEN FALSE
         ELSE A[1] = B[1] /\ A[2] = B[2]

\* lines 137-143 on the two parsed tuples
TimesEqual(A, B) ==
    IF A = None \/ B = None THEN FALSE
    ELSE IF (A[4] # MerNone \/ B[4] # MerNone)
            /\ (A[4] = MerNone \/ B[4] = MerNone \/ A[4] # B[4])
         THEN FALSE
         ELSE A[1] = B[1] /\ A[2] = B[2]

times_equal_flexible(ocr_val, bc_val) ==
    TimesEqual(norm_time_tuple_full(ocr_val), norm_time_tuple_full(bc_val))

IsSep(c) == c \in {"/", "-"}

\* DATE_RX1 at position i: \b(\d{1,2})[/-](\d{1,2})[/-](\d{2,4})\b.  The groups
\* and the last index of the match <<a, b, y, end>>, or None.
DateRx1Y(s, i, a1, b1, y1) ==
    IF (y1 - (b1 + 1)) \in {2, 3, 4} /\ Boundary(s, y1)
    THEN << Slice(s, i, a1 - 1), Slice(s, a1 + 1, b1 - 1), Slice(s, b1 + 1, y1 - 1), y1 - 1 >>
    ELSE None

DateRx1B(s, i, a1, b1) ==
    IF (b1 - (a1 + 1)) \in {1, 2} /\ b1 <= Len(s) /\ IsSep(s[b1])
    THEN DateRx1Y(s, i, a1, b1, SkipWhile(s, b1 + 1, Digit))
    ELSE None

DateRx1A(s, i, a1) ==
    IF (a1 - i) \in {1, 2} /\ a1 <= Len(s) /\ IsSep(s[a1])
    THEN DateRx1B(s, i, a1, SkipWhile(s, a1 + 1, Digit))
    ELSE None

DateRx1At(s, i) ==
    IF i <= Len(s) /\ Boundary(s, i) THEN DateRx1A(s, i, SkipWhile(s, i, Digit)) ELSE None

\* DATE_RX2 at position i: \b(\d{4})-(\d{2})-(\d{2})\b
DateRx2At(s, i) ==
    IF /\ i + 9 <= Len(s)
       /\ \A k \in {0, 1, 2, 3, 5, 6, 8, 9} : s[i + k] \in Digit
       /\ s[i + 4] = "-" /\ s[i + 7] = "-"
       /\ Boundary(s, i) /\ Boundary(s, i + 10)
    THEN << Slice(s, i, i + 3), Slice(s, i + 5, i + 6), Slice(s, i + 8, i + 9), i + 9 >>
    ELSE None

\* rx.search(s) from position i on: the groups of the leftmost match, or None
RECURSIVE DateRx1From(_, _)
DateRx1From(s, i) ==
    IF i > Len(s) THEN None
    ELSE LET Try(m) == IF m # None THEN m ELSE DateRx1From(s, i + 1)
         IN Try(DateRx1At(s, i))

RECURSIVE DateRx2From(_, _)
DateRx2From(s, i) ==
    IF i > Len(s) THEN None
    ELSE LET Try(m) == IF m # None THEN m ELSE DateRx2From(s, i + 1)
         IN Try(DateRx2At(s, i))

DATE_RX1_search(s) == DateRx1From(s, 1)
DATE_RX2_search(s) == DateRx2From(s, 1)

\* DATE_RX = DATE_RX1 | DATE_RX2, as a test
DATE_RX_search(s) ==
    IF DATE_RX1_search(s) # None THEN TRUE ELSE DATE_RX2_search(s) # None

\* lines 152-153 and 159-160: the range check
ValidDate(y, mo, d) == IF 1 <= mo /\ mo <= 12 /\ 1 <= d /\ d <= 31 THEN <<y, mo, d>> ELSE None

\* DateSwap without the swap of line 157: the first component is always the month
DateSwap_NeverSwaps(a, b, y) == ValidDate(y, a, b)

\* lines 156-160: day and month of a D/M/Y match
DateSwap(a, b, y) == IF a > 12 /\ b <= 12 THEN ValidDate(y, b, a) ELSE ValidDate(y, a, b)

DateOfRx1(m1) ==
    IF m1 = None THEN None ELSE DateSwap(IntOf(m1[1]), IntOf(m1[2]), IntOf(m1[3]))

DateOfRx2(s, m2) ==
    IF m2 # None THEN ValidDate(IntOf(m2[1]), IntOf(m2[2]), IntOf(m2[3]))
    ELSE DateOfRx1(DATE_RX1_search(s))

norm_date_tuple(s) ==
    IF s = <<>> THEN None ELSE DateOfRx2(s, DATE_RX2_search(s))

DatesEqual(A, B) == A # None /\ B # None /\ A = B

dates_equal_flexible(ocr_val, bc_val) ==
    DatesEqual(norm_date_tuple(ocr_val), norm_date_tuple(bc_val))

equal_strict_or_flexible(ocr_val, bc_val) ==
    IF norm_case_space(ocr_val) = norm_case_space(bc_val) THEN TRUE
    ELSE IF FULL_TIME_RX_fullmatch(ocr_val) /\ FULL_TIME_RX_fullmatch(bc_val)
         THEN times_equal_flexible(ocr_val, bc_val)
    ELSE IF DATE_RX_search(ocr_val) /\ DATE_RX_search(bc_val)
         THEN dates_equal_flexible(ocr_val, bc_val)
    ELSE FALSE

(***************************************************************************)
(* The regular expressions of lines 56-76.  rx at position i: the index of *)
(* the last character of the match that re finds first (greedy parts give  *)
(* back one character at a time), or 0 when rx does not match at i.        *)
(***************************************************************************)
IsDigitAt(s, p)  == p >= 1 /\ p <= Len(s) /\ s[p] \in Digit
IsLetterAt(s, p) == p >= 1 /\ p <= Len(s) /\ s[p] \in Letter

\* (AM|PM) under re.I at p
IsMeridianAt(s, p) ==
    p + 1 <= Len(s) /\ s[p] \in {"A", "a", "P", "p"} /\ s[p + 1] \in {"M", "m"}

\* TIME_RX after the minutes or the seconds: \s*(AM|PM)?\b with \s* taking k
\* characters from e on, then k - 1, ...
RECURSIVE TimeRxTail(_, _, _)
TimeRxTail(s, e, k) ==
    IF k < 0 THEN 0
    ELSE IF IsMeridianAt(s, e + k) /\ Boundary(s, e + k + 2) THEN e + k + 1
    ELSE IF Boundary(s, e + k) THEN e + k - 1
    ELSE TimeRxTail(s, e, k - 1)

TimeRxRest(s, e) == TimeRxTail(s, e, SkipWhile(s, e, Space) - e)

\* TIME_RX from the first character after the minutes: (?::(\d{2}))? first
\* with the seconds, then without
TimeRxSeconds(s, e) ==
    IF e <= Len(s) /\ s[e] = ":" /\ IsDigitAt(s, e + 1) /\ IsDigitAt(s, e + 2)
    THEN LET Try(r) == IF r # 0 THEN r ELSE TimeRxRest(s, e) IN Try(TimeRxRest(s, e + 3))
    ELSE TimeRxRest(s, e)

\* TIME_RX: \b(\d{1,2}):(\d{2})(?::(\d{2}))?\s*(AM|PM)?\b with re.I
TimeRxAt(s, i) ==
    LET h == IF IsDigitAt(s, i) /\ IsDigitAt(s, i + 1) THEN 2 ELSE 1 IN
    IF /\ IsDigitAt(s, i) /\ Boundary(s, i)
       /\ i + h <= Len(s) /\ s[i + h] = ":"
       /\ IsDigitAt(s, i + h + 1) /\ IsDigitAt(s, i + h + 2)
    THEN TimeRxSeconds(s, i + h + 3)
    ELSE 0

\* \d{lo,hi}\b from p: the whole run of digits, of lo to hi digits, then \b
DigitsThenBoundary(s, p, lo, hi, e) ==
    IF e - p >= lo /\ e - p <= hi /\ Boundary(s, e) THEN e - 1 ELSE 0

\* TRK_RX: \b(?:TRK|TRUCK)\s*[- ]?\d{2,6}\b with re.I
TrkRxDigits(s, q) ==
    LET d == IF q <= Len(s) /\ s[q] = "-" THEN q + 1 ELSE q
    IN DigitsThenBoundary(s, d, 2, 6, SkipWhile(s, d, Digit))

TrkRxAt(s, i) ==
    LET n == Len(s)
        trk == i + 2 <= n /\ upper(Slice(s, i, i + 2)) = <<"T", "R", "K">>
        truck == i + 4 <= n /\ upper(Slice(s, i, i + 4)) = <<"T", "R", "U", "C", "K">>
    IN IF ~Boundary(s, i) THEN 0
       ELSE IF trk THEN TrkRxDigits(s, SkipWhile(s, i + 3, Space))
       ELSE IF truck THEN TrkRxDigits(s, SkipWhile(s, i + 5, Space))
       ELSE 0

\* WH-?\d{1,3}\b with re.I from i, without the leading \b
WhBodyAt(s, i) ==
    LET n == Len(s)
        wh == i + 1 <= n /\ s[i] \in {"W", "w"} /\ s[i + 1] \in {"H", "h"}
        d  == IF i + 2 <= n /\ s[i + 2] = "-" THEN i + 3 ELSE i + 2
    IN IF wh THEN DigitsThenBoundary(s, d, 1, 3, SkipWhile(s, d, Digit)) ELSE 0

\* WH_RX: \bWH-?\d{1,3}\b with re.I
WhRxAt(s, i) == IF Boundary(s, i) THEN WhBodyAt(s, i) ELSE 0

\* RACK_RX: \b(?:WH-?\d{1,3}|[A-Z]\d{2,3})\b with re.I
RackRxAt(s, i) ==
    IF ~Boundary(s, i) THEN 0
    ELSE LET Try(r) ==
                 IF r # 0 THEN r
                 ELSE IF IsLetterAt(s, i)
                      THEN DigitsThenBoundary(s, i + 1, 2, 3, SkipWhile(s, i + 1, Digit))
                      ELSE 0
         IN Try(WhBodyAt(s, i))

\* [A-Z0-9\-] under re.I
CodeChar == ALNUM \cup {"-"}

HasDigit(s, from, to) == \E k \in from..to : s[k] \in Digit

\* ALNUM_LONG: (?=[A-Z0-9\-]*\d)[A-Z0-9\-]{8,} with re.I; e is the end of the
\* run of code characters that starts at i
AlnumLongRun(s, i, e) == IF e - i >= 8 /\ HasDigit(s, i, e - 1) THEN e - 1 ELSE 0

AlnumLongAt(s, i) == AlnumLongRun(s, i, SkipWhile(s, i, CodeChar))

\* CODE_SHORT_RX: (?=[A-Z0-9]*\d)[A-Z0-9\-]{5,12} with re.I; the lookahead
\* reads letters and digits only
CodeShortAt(s, i) ==
    IF HasDigit(s, i, SkipWhile(s, i, ALNUM) - 1)
    THEN LET Take(e) == IF e - i >= 5 THEN Min(e - 1, i + 11) ELSE 0
         IN Take(SkipWhile(s, i, CodeChar))
    ELSE 0

\* DATE_RX = DATE_RX1 | DATE_RX2 at i: the first alternative that matches
DateRxAt(s, i) ==
    LET Try(m) == IF m # None THEN m[4]
                  ELSE LET Try2(m2) == IF m2 # None THEN m2[4] ELSE 0
                       IN Try2(DateRx2At(s, i))
    IN Try(DateRx1At(s, i))

\* the regular expressions that are searched or iterated
RxAt(rx, s, i) ==
    CASE rx = "TIME_RX"       -> TimeRxAt(s, i)
      [] rx = "DATE_RX"       -> DateRxAt(s, i)
      [] rx = "TRK_RX"        -> TrkRxAt(s, i)
      [] rx = "WH_RX"         -> WhRxAt(s, i)
      [] rx = "RACK_RX"       -> RackRxAt(s, i)
      [] rx = "ALNUM_LONG"    -> AlnumLongAt(s, i)
      [] rx = "CODE_SHORT_RX" -> CodeShortAt(s, i)

\* rx.search(s) is not None
RECURSIVE RxSearchFrom(_, _, _)
RxSearchFrom(rx, s, i) ==
    IF i > Len(s) THEN FALSE
    ELSE IF RxAt(rx, s, i) # 0 THEN TRUE
    ELSE RxSearchFrom(rx, s, i + 1)

RxSearch(rx, s) == RxSearchFrom(rx, s, 1)

\* [m.group(0) for m in rx.finditer(s)]: the matches from left to right, each
\* search starting where the match before it ends
RECURSIVE RxFindAllFrom(_, _, _)
RxFindAllFrom(rx, s, i) ==
    IF i > Len(s) THEN <<>>
    ELSE LET Go(e) == IF e = 0 THEN RxFindAllFrom(rx, s, i + 1)
                      ELSE <<Slice(s, i, e)>> \o RxFindAllFrom(rx, s, e + 1)
         IN Go(RxAt(rx, s, i))

RxFindAll(rx, s) == RxFindAllFrom(rx, s, 1)

\* DIGIT_ONLY_RX: ^\d{1,4}$ as match uses it ($ also before a final newline)
DigitOnlyMatch(s) ==
    LET e == SkipWhile(s, 1, Digit)
    IN e - 1 >= 1 /\ e - 1 <= 4 /\ (e = Len(s) + 1 \/ (e = Len(s) /\ s[e] = "\n"))

\* the longest label tail of LABEL_COLON_RX and CELL_COLON_RX: {1,32}
LabelTailMax == 32

\* ([A-Za-z][A-Za-z0-9 /#\-\(\)]{1,32})\s*: at position i: <<last index of the
\* label group, index of the colon>>, or None.  e is the end of the run of label
\* characters after the first letter.
LabelColonRun(s, i, e) ==
    LET len  == Min(e - (i + 1), LabelTailMax)
        last == i + len
        c    == SkipWhile(s, last + 1, Space)
    IN IF len >= 1 /\ c <= Len(s) /\ s[c] = ":" THEN <<last, c>> ELSE None

LabelColonAt(s, i) ==
    IF IsLetterAt(s, i) THEN LabelColonRun(s, i, SkipWhile(s, i + 1, LabelChar)) ELSE None

\* CELL_COLON_RX.match(s): ^\s*[A-Za-z][A-Za-z0-9 /#\-\(\)]{1,32}\s*:\s*\S
ColonThenNonSpace(s, m) ==
    m # None /\ SkipWhile(s, m[2] + 1, Space) <= Len(s)

_is_colon_cell(s) == ColonThenNonSpace(s, LabelColonAt(s, SkipWhile(s, 1, Space)))

(***************************************************************************)
(* Lines, fields and value classes (lines 104-107, 204-233).               *)
(***************************************************************************)
\* text.replace("\r\n", "\n").replace("\r", "\n").split("\n")
RECURSIVE LinesFrom(_, _, _)
LinesFrom(text, start, p) ==
    IF p > Len(text) THEN <<Slice(text, start, Len(text))>>
    ELSE IF text[p] = "\r" /\ p < Len(text) /\ text[p + 1] = "\n"
         THEN <<Slice(text, start, p - 1)>> \o LinesFrom(text, p + 2, p + 2)
    ELSE IF text[p] \in {"\r", "\n"}
         THEN <<Slice(text, start, p - 1)>> \o LinesFrom(text, p + 1, p + 1)
    ELSE LinesFrom(text, start, p + 1)

get_lines(text) == LinesFrom(text, 1, 1)

\* re.split of s at the runs of at least minLen characters of cls
RECURSIVE SplitRunsFrom(_, _, _, _, _)
SplitRunsFrom(s, start, p, cls, minLen) ==
    IF p > Len(s) THEN <<Slice(s, start, Len(s))>>
    ELSE IF s[p] \in cls
         THEN LET Cut(e) == IF e - p >= minLen
                            THEN <<Slice(s, start, p - 1)>> \o SplitRunsFrom(s, e, e, cls, minLen)
                            ELSE SplitRunsFrom(s, start, e, cls, minLen)
              IN Cut(SkipWhile(s, p, cls))
    ELSE SplitRunsFrom(s, start, p + 1, cls, minLen)

SplitRuns(s, cls, minLen) == SplitRunsFrom(s, 1, 1, cls, minLen)

HasChar(s, cls) == \E k \in 1..Len(s) : s[k] \in cls

NonEmpty(s) == s # <<>>

\* [p.strip() for p in parts if p.strip()]
StripParts(parts) == SelectSeq([k \in 1..Len(parts) |-> strip(parts[k])], NonEmpty)

split_fields(line) ==
    IF HasChar(line, {"\t"}) THEN StripParts(SplitRuns(line, {"\t"}, 1))
    ELSE StripParts(SplitRuns(line, Space, 2))

looks_valueish(tokens) ==
    \E k \in 1..Len(tokens) :
        \/ RxSearch("TIME_RX", tokens[k])
        \/ RxSearch("DATE_RX", tokens[k])
        \/ HasChar(tokens[k], Digit)

\* the rack pattern is tried before the warehouse pattern
classify_value_RackBeforeWh(v) ==
    IF strip(v) = <<>> THEN "empty"
    ELSE IF RxSearch("TIME_RX", v) THEN "time"
    ELSE IF RxSearch("DATE_RX", v) THEN "date"
    ELSE IF RxSearch("TRK_RX", v) THEN "truck"
    ELSE IF RxSearch("RACK_RX", v) THEN "rack"
    ELSE IF RxSearch("WH_RX", v) THEN "wh"
    ELSE IF RxSearch("ALNUM_LONG", v) THEN "alnum_long"
    ELSE IF RxSearch("CODE_SHORT_RX", v) THEN "code_short"
    ELSE IF DigitOnlyMatch(v) THEN "small_int"
    ELSE "string"

\* lines 221-233
classify_value(v) ==
    IF strip(v) = <<>> THEN "empty"
    ELSE IF RxSearch("TIME_RX", v) THEN "time"
    ELSE IF RxSearch("DATE_RX", v) THEN "date"
    ELSE IF RxSearch("TRK_RX", v) THEN "truck"
    ELSE IF RxSearch("WH_RX", v) THEN "wh"
    ELSE IF RxSearch("RACK_RX", v) THEN "rack"
    ELSE IF RxSearch("ALNUM_LONG", v) THEN "alnum_long"
    ELSE IF RxSearch("CODE_SHORT_RX", v) THEN "code_short"
    ELSE IF DigitOnlyMatch(v) THEN "small_int"
    ELSE "string"

(***************************************************************************)
(* parse_pairs_for_context (lines 284-351).  A pair is a record of a label *)
(* and a value.                                                            *)
(***************************************************************************)
Pair(lbl, val) == [label |-> lbl, value |-> val]

\* SEP_LINE.match(ln): ^[-\s]{8,}$
SepLineMatch(ln) ==
    LET body == IF ln # <<>> /\ ln[Len(ln)] = "\n" THEN Len(ln) - 1 ELSE Len(ln)
    IN /\ \E e \in {body, Len(ln)} : e >= 8
       /\ \A k \in 1..Len(ln) : ln[k] \in Space \cup {"-"}

\* the lookahead that ends an inline value: \s{2,} | \t+ | $ | label\s*:
InlineValueStops(ln, p) ==
    \/ p > Len(ln)
    \/ ln[p] = "\t"
    \/ (p = Len(ln) /\ ln[p] = "\n")
    \/ (p < Len(ln) /\ ln[p] \in Space /\ ln[p + 1] \in Space)
    \/ LabelColonAt(ln, p) # None

\* [^\t]+? : the first position after p - 1 where the lookahead holds
RECURSIVE InlineValueEnd(_, _)
InlineValueEnd(ln, p) ==
    IF InlineValueStops(ln, p) THEN p ELSE InlineValueEnd(ln, p + 1)

\* the finditer loop of lines 296-302 from position st
RECURSIVE InlinePairsFrom(_, _)
InlinePairsFrom(ln, st) ==
    IF st > Len(ln) THEN <<>>
    ELSE LET Value(m, v0, e) ==
                 LET val == strip(Slice(ln, v0, e - 1))
                     lbl == strip(Slice(ln, st, m[1]))
                 IN (IF val # <<>> THEN <<Pair(lbl, val)>> ELSE <<>>) \o InlinePairsFrom(ln, e)
             Label(m, v0) ==
                 IF v0 > Len(ln) THEN InlinePairsFrom(ln, st + 1)
                 ELSE Value(m, v0, InlineValueEnd(ln, v0 + 1))
             Start(m) ==
                 IF m = None THEN InlinePairsFrom(ln, st + 1)
                 ELSE Label(m, SkipWhile(ln, m[2] + 1, Space))
         IN Start(LabelColonAt(ln, st))

\* re.match(r"^\s*(label)\s*:\s*(.+)$", cell) of line 332
CellPair(cell) ==
    LET Split(m) ==
            IF m = None THEN <<>>
            ELSE LET v0 == SkipWhile(cell, m[2] + 1, Space)
                 IN IF v0 > Len(cell) THEN <<>>
                    ELSE <<Pair(strip(Slice(cell, SkipWhile(cell, 1, Space), m[1])),
                                strip(Slice(cell, v0, Len(cell))))>>
    IN Split(LabelColonAt(cell, SkipWhile(cell, 1, Space)))

RECURSIVE CellPairs(_, _)
CellPairs(toks, k) ==
    IF k > Len(toks) THEN <<>> ELSE CellPair(toks[k]) \o CellPairs(toks, k + 1)

\* the first line after i that is not blank, or Len(lines) + 1
RECURSIVE NextNonBlank(_, _)
NextNonBlank(lines, j) ==
    IF j <= Len(lines) /\ strip(lines[j]) = <<>> THEN NextNonBlank(lines, j + 1) ELSE j

\* lines 328-341: an even number of cells on one line
EvenCells(toks) ==
    IF \A k \in 1..Len(toks) : _is_colon_cell(toks[k]) THEN CellPairs(toks, 1)
    ELSE [k \in 1..(Len(toks) \div 2) |-> Pair(toks[2 * k - 1], toks[2 * k])]

\* after a header was zipped to its values the cursor is left on the value row
TableRow_StaysOnValueRow(lines, i, toks, j) ==
    LET Header(nxt) ==
            IF j <= Len(lines) /\ Len(nxt) = Len(toks)
               /\ looks_valueish(nxt) /\ ~looks_valueish(toks)
            THEN <<[k \in 1..Len(toks) |-> Pair(toks[k], nxt[k])], j>>
            ELSE IF Len(toks) % 2 = 0 /\ looks_valueish(toks)
                 THEN <<EvenCells(toks), i + 1>>
                 ELSE <<<<>>, i + 1>>
    IN Header(IF j <= Len(lines) THEN split_fields(lines[j]) ELSE <<>>)

\* lines 317-341 for a line of more than two cells: <<pairs, next line>>
TableRow(lines, i, toks, j) ==
    LET Header(nxt) ==
            IF j <= Len(lines) /\ Len(nxt) = Len(toks)
               /\ looks_valueish(nxt) /\ ~looks_valueish(toks)
            THEN <<[k \in 1..Len(toks) |-> Pair(toks[k], nxt[k])], j + 1>>
            ELSE IF Len(toks) % 2 = 0 /\ looks_valueish(toks)
                 THEN <<EvenCells(toks), i + 1>>
                 ELSE <<<<>>, i + 1>>
    IN Header(IF j <= Len(lines) THEN split_fields(lines[j]) ELSE <<>>)

\* a line of two cells gives the pair of the two, whatever the cells are
FieldPairs_CrossPairAlways(lines, i, toks) ==
    IF Len(toks) < 2 THEN <<<<>>, i + 1>>
    ELSE IF Len(toks) = 2 THEN <<<<Pair(toks[1], toks[2])>>, i + 1>>
    ELSE TableRow(lines, i, toks, NextNonBlank(lines, i + 1))

\* lines 305-343 for the cells of one line: <<pairs, next line>>
FieldPairs(lines, i, toks) ==
    IF Len(toks) < 2 THEN <<<<>>, i + 1>>
    ELSE IF Len(toks) = 2
         THEN IF _is_colon_cell(toks[1]) /\ _is_colon_cell(toks[2])
              THEN <<<<>>, i + 1>>
              ELSE <<<<Pair(toks[1], toks[2])>>, i + 1>>
    ELSE TableRow(lines, i, toks, NextNonBlank(lines, i + 1))

\* the while loop of lines 290-343 from line i
RECURSIVE ParseFrom(_, _)
ParseFrom(lines, i) ==
    IF i > Len(lines) THEN <<>>
    ELSE LET Line(ln) ==
                 IF ln = <<>> \/ SepLineMatch(ln) THEN ParseFrom(lines, i + 1)
                 ELSE LET Cells(r) == InlinePairsFrom(ln, 1) \o r[1] \o ParseFrom(lines, r[2])
                      IN Cells(FieldPairs(lines, i, split_fields(ln)))
         IN Line(strip(lines[i]))

\* the last occurrence of every pair is the one kept
RECURSIVE Dedupe_KeepsLast(_, _)
Dedupe_KeepsLast(pairs, k) ==
    IF k > Len(pairs) THEN <<>>
    ELSE IF \E h \in (k + 1)..Len(pairs) : pairs[h] = pairs[k] THEN Dedupe_KeepsLast(pairs, k + 1)
    ELSE <<pairs[k]>> \o Dedupe_KeepsLast(pairs, k + 1)

\* lines 346-350: the first occurrence of every pair, in order
RECURSIVE Dedupe(_, _)
Dedupe(pairs, k) ==
    IF k > Len(pairs) THEN <<>>
    ELSE IF \E h \in 1..(k - 1) : pairs[h] = pairs[k] THEN Dedupe(pairs, k + 1)
    ELSE <<pairs[k]>> \o Dedupe(pairs, k + 1)

DedupePairs(pairs) == Dedupe(pairs, 1)

parse_pairs_for_context(text) == DedupePairs(ParseFrom(get_lines(text), 1))

(***************************************************************************)
(* Token-anchored strict matching                                          *)
(***************************************************************************)
\* re.escape(value).replace(r"\ ", r"\s+") under re.I, matched at position p of
\* text from the k-th character of value on: a space of value is \s+ (greedy,
\* giving back one character at a time), every other character is itself,
\* letters compared without case.  The 1-based index of the last character
\* matched, or -1.  atEnd is the suffix lookahead (?![A-Za-z0-9]).
RECURSIVE AnchoredFrom(_, _, _, _, _)
RECURSIVE AnchoredRun(_, _, _, _, _, _)
AnchoredFrom(value, k, text, p, atEnd) ==
    IF k > Len(value)
    THEN IF atEnd /\ p <= Len(text) /\ text[p] \in ALNUM THEN -1 ELSE p - 1
    ELSE IF value[k] = " "
         THEN AnchoredRun(value, k, text, p, SkipWhile(text, p, Space) - p, atEnd)
         ELSE IF p <= Len(text) /\ ToUpper(text[p]) = ToUpper(value[k])
              THEN AnchoredFrom(value, k + 1, text, p + 1, atEnd)
              ELSE -1

\* \s+ taking len characters, then len - 1, ... down to 1, until the rest matches
AnchoredRun(value, k, text, p, len, atEnd) ==
    IF len < 1 THEN -1
    ELSE LET r == AnchoredFrom(value, k + 1, text, p + len, atEnd)
         IN IF r # -1 THEN r ELSE AnchoredRun(value, k, text, p, len - 1, atEnd)

\* anchored_value_regex(value) tried at position p of text: the prefix
\* lookbehind (?<![A-Za-z0-9]) is there only when value starts with a letter or
\* digit, the suffix lookahead only when it ends with one
anchored_value_regex(value, text, p) ==
    LET prefix == value # <<>> /\ value[1] \in ALNUM
        suffix == value # <<>> /\ value[Len(value)] \in ALNUM
    IN IF prefix /\ p > 1 /\ text[p - 1] \in ALNUM THEN -1
       ELSE AnchoredFrom(value, 1, text, p, suffix)

\* pat.search(text) from position p on: <<start, end>> of the leftmost match
\* (1-based, inclusive), or None
RECURSIVE AnchoredSearchFrom(_, _, _)
AnchoredSearchFrom(value, text, p) ==
    IF p > Len(text) THEN None
    ELSE LET Try(e) == IF e # -1 THEN <<p, e>> ELSE AnchoredSearchFrom(value, text, p + 1)
         IN Try(anchored_value_regex(value, text, p))

\* lines 190-193: (m.start(), m.end(), m.group(0)) with Python's 0-based offsets
FoundSpan(text, m) ==
    IF m = None THEN None ELSE <<m[1] - 1, m[2], Slice(text, m[1], m[2])>>

find_value_in_text_strict(value, text) ==
    IF value = <<>> THEN None ELSE FoundSpan(text, AnchoredSearchFrom(value, text, 1))

value_is_substring_token(needle, hay) ==
    IF needle = <<>> \/ hay = <<>> THEN FALSE
    ELSE AnchoredSearchFrom(needle, hay, 1) # None

(***************************************************************************)
(* build_barcode_library (lines 354-443).  An entry is a record of a       *)
(* label, a value and the class of the value; lib_map is the sequence of   *)
(* its keys (normalised value, class) in insertion order, each with its    *)
(* entries.                                                                *)
(***************************************************************************)
Entry(lbl, val, cls) == [label |-> lbl, value |-> val, class |-> cls]

EntryKey(e) == <<norm_case_space(e.value), e.class>>

TypedClasses == {"time", "date", "truck", "wh", "rack", "alnum_long", "code_short"}

\* re.fullmatch(r"[A-Za-z][A-Za-z0-9 /#\-\(\)]{1,32}", s)
LabelLike(s) ==
    /\ Len(s) >= 2 /\ Len(s) <= 1 + LabelTailMax
    /\ s[1] \in Letter
    /\ \A k \in 2..Len(s) : s[k] \in LabelChar

\* re.search(r"[A-Z][a-z]+", val)
TitleWord(val) == \E k \in 1..(Len(val) - 1) : val[k] \in Upper /\ val[k + 1] \in Lower

\* line 390 without its "not": the relaxed rule is tried in strict mode only
KeepPair_RelaxedWhenStrict(lbl, val, vclass, strict_strings) ==
    IF vclass \in TypedClasses THEN TRUE
    ELSE IF vclass = "small_int" THEN HasChar(lbl, Letter)
    ELSE IF HasChar(lbl, {":"}) THEN TRUE
    ELSE \/ /\ strict_strings
            /\ LabelLike(lbl) /\ Len(val) >= 4
            /\ (HasChar(val, {" "}) \/ TitleWord(val))
         \/ (LabelLike(lbl) /\ ~LabelLike(val))

\* a value of up to four digits is kept whatever its label is
KeepPair_SmallIntAlways(lbl, val, vclass, strict_strings) ==
    IF vclass \in TypedClasses \cup {"small_int"} THEN TRUE
    ELSE IF HasChar(lbl, {":"}) THEN TRUE
    ELSE \/ /\ ~strict_strings
            /\ LabelLike(lbl) /\ Len(val) >= 4
            /\ (HasChar(val, {" "}) \/ TitleWord(val))
         \/ (LabelLike(lbl) /\ ~LabelLike(val))

\* lines 376-401: keep
KeepPair(lbl, val, vclass, strict_strings) ==
    IF vclass \in TypedClasses THEN TRUE
    ELSE IF vclass = "small_int" THEN HasChar(lbl, Letter)
    ELSE IF HasChar(lbl, {":"}) THEN TRUE
    ELSE \/ /\ ~strict_strings
            /\ LabelLike(lbl) /\ Len(val) >= 4
            /\ (HasChar(val, {" "}) \/ TitleWord(val))
         \/ (LabelLike(lbl) /\ ~LabelLike(val))

\* the loop of lines 370-407 from pair k
RECURSIVE LabeledEntries(_, _, _)
LabeledEntries(pairs, k, strict_strings) ==
    IF k > Len(pairs) THEN <<>>
    ELSE LET Keep(lbl, val, vclass) ==
                 IF val # <<>> /\ KeepPair(lbl, val, vclass, strict_strings)
                 THEN <<Entry(lbl, val, vclass)>> ELSE <<>>
             One(lbl, val) == Keep(lbl, val, classify_value(val))
         IN One(strip(pairs[k].label), strip(pairs[k].value))
            \o LabeledEntries(pairs, k + 1, strict_strings)

\* a harvest loop without the test of present_keys: every match is added
Harvest_NoPresenceCheck(entries, matches, k, cls, label) ==
    entries \o [h \in 1..(IF k > Len(matches) THEN 0 ELSE Len(matches) - k + 1) |->
                   Entry(label, matches[k + h - 1], cls)]

\* one harvest loop of lines 412-431 from match k
RECURSIVE Harvest(_, _, _, _, _)
Harvest(entries, matches, k, cls, label) ==
    IF k > Len(matches) THEN entries
    ELSE LET e == Entry(label, matches[k], cls)
         IN IF \E h \in 1..Len(entries) : EntryKey(entries[h]) = EntryKey(e)
            THEN Harvest(entries, matches, k + 1, cls, label)
            ELSE Harvest(Append(entries, e), matches, k + 1, cls, label)

\* lines 410-431
HarvestRaw(entries, raw) ==
    Harvest(Harvest(Harvest(Harvest(Harvest(entries,
        RxFindAll("ALNUM_LONG", raw), 1, "alnum_long", <<>>),
        RxFindAll("TRK_RX", raw), 1, "truck", <<"T", "r", "u", "c", "k">>),
        RxFindAll("WH_RX", raw), 1, "wh", <<"W", "H">>),
        RxFindAll("TIME_RX", raw), 1, "time", <<"T", "i", "m", "e">>),
        RxFindAll("DATE_RX", raw), 1, "date", <<"D", "a", "t", "e">>)

\* the entries build_barcode_library returns for the pairs parsed from text
LibraryEntries(labeled_pairs, text, harvest_raw, strict_strings) ==
    IF harvest_raw THEN HarvestRaw(LabeledEntries(labeled_pairs, 1, strict_strings), text)
    ELSE LabeledEntries(labeled_pairs, 1, strict_strings)

\* lines 439-441
LibMapOf(entries, keys) ==
    [k \in 1..Len(keys) |->
        LET HasKey(e) == EntryKey(e) = keys[k]
        IN [key |-> keys[k], entries |-> SelectSeq(entries, HasKey)]]

LibMap(entries) == LibMapOf(entries, DedupePairs([k \in 1..Len(entries) |-> EntryKey(entries[k])]))

(***************************************************************************)
(* labels_match and the cost of a pair (lines 94-102, 446-479).  Costs are *)
(* exact: a cost c of the program is the integer c * CostUnit here.        *)
(***************************************************************************)
\* the length of the common run of a from i and b from j
RECURSIVE CommonRun(_, _, _, _, _, _)
CommonRun(a, b, i, j, ahi, bhi) ==
    IF i <= ahi /\ j <= bhi /\ a[i] = b[j] THEN 1 + CommonRun(a, b, i + 1, j + 1, ahi, bhi)
    ELSE 0

\* difflib's find_longest_match on a[alo..ahi] and b[blo..bhi]: <<i, j, k>>, the
\* longest common block, the earliest in a and then the earliest in b
LongestOf(runs, k) ==
    LET i == MinOf({ij[1] : ij \in {x \in DOMAIN runs : runs[x] = k}})
        j == MinOf({ij[2] : ij \in {x \in DOMAIN runs : runs[x] = k /\ x[1] = i}})
    IN <<i, j, k>>

LongestIn(runs) == LongestOf(runs, MaxOf({runs[x] : x \in DOMAIN runs}))

find_longest_match(a, b, alo, ahi, blo, bhi) ==
    LongestIn([ij \in (alo..ahi) \X (blo..bhi) |-> CommonRun(a, b, ij[1], ij[2], ahi, bhi)])

\* the characters in difflib's get_matching_blocks
RECURSIVE MatchingTotal(_, _, _, _, _, _)
MatchingTotal(a, b, alo, ahi, blo, bhi) ==
    IF alo > ahi \/ blo > bhi THEN 0
    ELSE LET Blocks(m) ==
                 IF m[3] = 0 THEN 0
                 ELSE m[3] + MatchingTotal(a, b, alo, m[1] - 1, blo, m[2] - 1)
                           + MatchingTotal(a, b, m[1] + m[3], ahi, m[2] + m[3], bhi)
         IN Blocks(find_longest_match(a, b, alo, ahi, blo, bhi))

\* the factors of CostUnit that make 0.6 * (1 - 2M/T) an integer for T up to 22
LabelScale == 3 * 7 * 11 * 13 * 17 * 19
CostUnit   == 400 * LabelScale

\* 0.6 * (1.0 - SequenceMatcher(None, nk, nl).ratio()), ratio = 2.0 * M / T
RatioCost(m, t) ==
    (t - 2 * m) * (CHOOSE q \in {(240 * LabelScale) \div t} : q * t = 240 * LabelScale)

\* 0.6 * (1.0 - labels_match(ocr_key, lbl))
LabelCost(nk, nl) ==
    IF nk = <<>> \/ nl = <<>> THEN 240 * LabelScale
    ELSE IF nk = nl THEN 0
    ELSE RatioCost(MatchingTotal(nk, nl, 1, Len(nk), 1, Len(nl)), Len(nk) + Len(nl))

\* 0.35 * v_cost
ValueCost(ocr_val, value) ==
    IF equal_strict_or_flexible(ocr_val, value) THEN 0
    ELSE IF value_is_substring_token(ocr_val, value) THEN 105 * LabelScale
    ELSE 140 * LabelScale

\* 0.05 * t_pen
ClassPenalty(ocr_val, value) ==
    IF \/ classify_value(ocr_val) = classify_value(value)
       \/ (FULL_TIME_RX_fullmatch(ocr_val) /\ FULL_TIME_RX_fullmatch(value))
       \/ (DATE_RX_search(ocr_val) /\ DATE_RX_search(value))
    THEN 0 ELSE 5 * LabelScale

pair_cost(ocr_key, ocr_val, p) ==
    LabelCost(norm_label(ocr_key), norm_label(p.label))
        + ValueCost(ocr_val, p.value) + ClassPenalty(ocr_val, p.value)

\* the loop of line 477 skips a pair of another class: its cell keeps the 1.5
\* of line 474
build_cost_matrix_CeilingKept(expected_items, pairs) ==
    [i \in 1..Len(expected_items) |->
        [j \in 1..Len(pairs) |->
            IF ClassPenalty(expected_items[i].value, pairs[j].value) # 0
            THEN 600 * LabelScale
            ELSE pair_cost(expected_items[i].key, expected_items[i].value, pairs[j])]]

build_cost_matrix(expected_items, pairs) ==
    [i \in 1..Len(expected_items) |->
        [j \in 1..Len(pairs) |-> pair_cost(expected_items[i].key, expected_items[i].value, pairs[j])]]

(***************************************************************************)
(* The rows of ocr_global_assignment (lines 109-115, 248-276, 559-595).    *)
(* Offsets into the text are 0-based as in the program.                    *)
(***************************************************************************)
\* text.rfind("\n", 0, idx) + 1 and text.find("\n", idx), Len(text) when none
find_line_bounds(text, idx) ==
    <<MaxOf({0} \cup {q \in 1..idx : q <= Len(text) /\ text[q] = "\n"}),
      MinOf({Len(text)} \cup {q - 1 : q \in {r \in (idx + 1)..Len(text) : text[r] = "\n"}})>>

\* lines 252-257: the label of the last LABEL_COLON_RX match that ends at or
\* before mstart, None when there is none; the search goes on from st
RECURSIVE LastColonLabel(_, _, _, _)
LastColonLabel(line, st, mstart, last) ==
    IF st > Len(line) THEN last
    ELSE LET Ends(m, end) ==
                 IF end <= mstart
                 THEN LastColonLabel(line, end + 1, mstart, strip(Slice(line, st, m[1])))
                 ELSE last
             Start(m) ==
                 IF m = None THEN LastColonLabel(line, st + 1, mstart, last)
                 ELSE Ends(m, SkipWhile(line, m[2] + 1, Space) - 1)
         IN Start(LabelColonAt(line, st))

\* line.split("\t")
RECURSIVE SplitTabsFrom(_, _, _)
SplitTabsFrom(s, start, p) ==
    IF p > Len(s) THEN <<Slice(s, start, Len(s))>>
    ELSE IF s[p] = "\t" THEN <<Slice(s, start, p - 1)>> \o SplitTabsFrom(s, p + 1, p + 1)
    ELSE SplitTabsFrom(s, start, p + 1)

\* the loops of lines 259-266 and 268-275 from cell i whose offset is acc: the
\* cell before the one that holds mstart, None when there is none
RECURSIVE CellBefore(_, _, _, _, _)
CellBefore(cells, i, acc, mstart, sep) ==
    IF i > Len(cells) THEN None
    ELSE IF acc <= mstart /\ mstart <= acc + Len(cells[i])
         THEN IF i > 1 /\ strip(cells[i - 1]) # <<>> THEN strip(cells[i - 1]) ELSE None
    ELSE CellBefore(cells, i + 1, acc + Len(cells[i]) + sep, mstart, sep)

infer_label_on_line(line, mstart) ==
    LET Spaces(r) == IF r # None THEN r
                     ELSE CellBefore(SplitRuns(line, Space, 2), 1, 0, mstart, 2)
        Tabs(r) == IF r # None THEN r
                   ELSE Spaces(CellBefore(SplitTabsFrom(line, 1, 1), 1, 0, mstart, 1))
    IN Tabs(LastColonLabel(line, 1, mstart, None))

Row(key, ocr, bc_label, bc_value, status, ctx) ==
    [key |-> key, ocr |-> ocr, barcode_label |-> bc_label, barcode_value |-> bc_value,
     status |-> status, context_label |-> ctx]

\* lines 561-579: the row of a field that was assigned the pair p
AssignedRow(item, p) ==
    Row(item.key, item.value, p.label, p.value,
        IF equal_strict_or_flexible(item.value, p.value) THEN "MATCH" ELSE "MISMATCH",
        p.label)

\* an unassigned field that is reported MISSING without a search of the text
UnassignedRow_NoFallback(item, text, found) ==
    Row(item.key, item.value, <<>>, <<>>, "MISSING", <<>>)

\* an unassigned field whose value is found in the text is reported as a MATCH
UnassignedRow_FoundIsMatch(item, text, found) ==
    IF found # None THEN Row(item.key, item.value, item.key, found[3], "MATCH", <<>>)
    ELSE Row(item.key, item.value, <<>>, <<>>, "MISSING", <<>>)

\* lines 581-595: the row of a field that was assigned no pair; found is what
\* find_value_in_text_strict returns
UnassignedRow(item, text, found) ==
    IF found # None
    THEN LET Inferred(inferred) ==
                 Row(item.key, item.value,
                     IF inferred # None THEN inferred ELSE item.key,
                     found[3], "MISMATCH",
                     IF inferred # None THEN inferred ELSE <<>>)
             Line(b) == Inferred(infer_label_on_line(Slice(text, b[1] + 1, b[2]), found[1] - b[1]))
         IN Line(find_line_bounds(text, found[1]))
    ELSE Row(item.key, item.value, <<>>, <<>>, "MISSING", <<>>)

\* line 544: assigned_map; a later entry for the same row overwrites an earlier
AssignedCol(rows_, cols_, i) ==
    LET ks == {k \in 1..Len(rows_) : k <= Len(cols_) /\ rows_[k] = i}
    IN IF ks = {} THEN 0 ELSE cols_[MaxOf(ks)]

\* lines 559-595 for field i
RowFor(items, i, pairs, rows_, cols_, text) ==
    LET Pick(j) == IF j # 0 THEN AssignedRow(items[i], pairs[j])
                   ELSE UnassignedRow(items[i], text, find_value_in_text_strict(items[i].value, text))
    IN Pick(AssignedCol(rows_, cols_, i))

\* a row reported MISSING is counted as mismatched
Tally_MissingAsMismatched(summary_, status) ==
    IF status = "MATCH" THEN [summary_ EXCEPT !.matched = @ + 1]
    ELSE [summary_ EXCEPT !.mismatched = @ + 1]

\* the MISMATCH row of an assigned field is not counted (line 579 left out)
Tally_MismatchUncounted(summary_, status) ==
    IF status = "MATCH" THEN [summary_ EXCEPT !.matched = @ + 1]
    ELSE IF status = "MISSING" THEN [summary_ EXCEPT !.missing = @ + 1]
    ELSE summary_

\* lines 569, 574, 579, 590, 595: summary[...] += 1
Tally(summary_, status) ==
    IF status = "MATCH" THEN [summary_ EXCEPT !.matched = @ + 1]
    ELSE IF status = "MISMATCH" THEN [summary_ EXCEPT !.mismatched = @ + 1]
    ELSE [summary_ EXCEPT !.missing = @ + 1]

(***************************************************************************)
(* main: the consumed values and library_remaining_to_list (lines 600-618, *)
(* 701-710).                                                               *)
(***************************************************************************)
\* lines 702-707
ConsumedRow(r) ==
    r.status \in {"MATCH", "MISMATCH"} /\ r.barcode_label # <<>> /\ r.barcode_value # <<>>

ConsumedValues(rows_) ==
    LET used == SelectSeq(rows_, ConsumedRow)
    IN [k \in 1..Len(used) |-> used[k].barcode_value]

\* lines 604-605
equals_any_consumed(val, consumed_values) ==
    \E k \in 1..Len(consumed_values) : equal_strict_or_flexible(val, consumed_values[k])

Unlabeled == <<"(", "u", "n", "l", "a", "b", "e", "l", "e", "d", ")">>

\* lines 608-614 for one key of lib_map: the entry of the missed list, with the
\* set of its labels, or nothing when every entry of the key is consumed
MissedOf(group, kept) ==
    IF kept = <<>> THEN <<>>
    ELSE <<[class  |-> group.key[2],
            labels |-> {IF kept[k].label # <<>> THEN kept[k].label ELSE Unlabeled : k \in 1..Len(kept)},
            value  |-> kept[1].value,
            count  |-> Len(kept)]>>

RECURSIVE MissedFrom(_, _, _)
MissedFrom(lib_map, k, consumed_values) ==
    IF k > Len(lib_map) THEN <<>>
    ELSE LET Kept(e) == ~equals_any_consumed(e.value, consumed_values)
         IN MissedOf(lib_map[k], SelectSeq(lib_map[k].entries, Kept))
            \o MissedFrom(lib_map, k + 1, consumed_values)

\* line 616
ClassOrder(cls) ==
    CASE cls = "alnum_long" -> 0 [] cls = "truck" -> 1 [] cls = "wh" -> 2
      [] cls = "rack" -> 3 [] cls = "date" -> 4 [] cls = "time" -> 5
      [] cls = "code_short" -> 6 [] cls = "small_int" -> 7 [] cls = "string" -> 8
      [] cls = "empty" -> 9 [] OTHER -> 99

\* the characters in the order of their code points
CodePoints ==
    <<"\t", "\n", "\r", " ", "#", "(", ")", "+", "-", ".", "/">> \o DigitSeq
        \o <<":">> \o UpperSeq \o <<"_">> \o LowerSeq

\* a <= b for two strings, as Python compares them
RECURSIVE StrLE(_, _, _)
StrLE(a, b, k) ==
    IF k > Len(a) THEN TRUE
    ELSE IF k > Len(b) THEN FALSE
    ELSE IF a[k] = b[k] THEN StrLE(a, b, k + 1)
    ELSE IndexIn(a[k], CodePoints) < IndexIn(b[k], CodePoints)

\* the class is left out of the key of the sort
MissedKeyLE_ValueOnly(x, y) == StrLE(x.value, y.value, 1)

\* the key of line 617: (order of the class, value)
MissedKeyLE(x, y) ==
    \/ ClassOrder(x.class) < ClassOrder(y.class)
    \/ (ClassOrder(x.class) = ClassOrder(y.class) /\ StrLE(x.value, y.value, 1))

\* list.sort is stable: x goes after the entries whose key is not greater
InsertMissed(sorted, x) ==
    LET n == Cardinality({k \in 1..Len(sorted) : MissedKeyLE(sorted[k], x)})
    IN Slice(sorted, 1, n) \o <<x>> \o Slice(sorted, n + 1, Len(sorted))

RECURSIVE SortMissed(_, _, _)
SortMissed(missed_, k, sorted) ==
    IF k > Len(missed_) THEN sorted
    ELSE SortMissed(missed_, k + 1, InsertMissed(sorted, missed_[k]))

\* the orders in which list(set) can give the elements of a set of strings: the
\* hashes of strings change from one process to the next
ListsOfSet(S) == {f \in [1..Cardinality(S) -> S] : \A a, b \in DOMAIN f : a # b => f[a] # f[b]}

\* the lists library_remaining_to_list can return for a sorted missed list of
\* label sets
RECURSIVE LabelLists(_, _)
LabelLists(missed_, k) ==
    IF k > Len(missed_) THEN {<<>>}
    ELSE {<<[missed_[k] EXCEPT !.labels = ls]>> \o rest :
              ls \in ListsOfSet(missed_[k].labels), rest \in LabelLists(missed_, k + 1)}

library_remaining_to_list(lib_map, consumed_values) ==
    LabelLists(SortMissed(MissedFrom(lib_map, 1, consumed_values), 1, <<>>), 1)

(***************************************************************************)
(* Inputs of the comparators: a time or a date given by its components and *)
(* written out as the text the comparators receive                         *)
(***************************************************************************)
RECURSIVE FmtInt(_)
FmtInt(n) == IF n < 10 THEN <<DigitSeq[n + 1]>>
             ELSE FmtInt(n \div 10) \o <<DigitSeq[(n % 10) + 1]>>

RECURSIVE Pad(_, _)
Pad(s, w) == IF Len(s) >= w THEN s ELSE Pad(<<"0">> \o s, w)

Hours   == {0, 2, 12, 14}
Minutes == {5, 30}
\* the seconds of a time: none, or one number
NoSec   == <<>>
Seconds == {NoSec, <<0>>}
Meridians == {MerNone, "AM", "PM"}
\* "plain": 2:30 PM; "tight": 02:30pm; "glued" and "short" are not times:
\* 2:30 PMX and 2:3 PM
TimeStyles == {"plain", "tight", "glued", "short"}

TimeInputs ==
    {x \in [kind : {"time"}, h : Hours, m : Minutes, s : Seconds,
            mer : Meridians, style : TimeStyles] :
        x.style \in {"glued", "short"} => x.s = NoSec}

TimeText(x) ==
    LET hh  == IF x.style = "tight" THEN Pad(FmtInt(x.h), 2) ELSE FmtInt(x.h)
        mm  == IF x.style = "short" THEN <<"3">> ELSE Pad(FmtInt(x.m), 2)
        ss  == IF x.s = NoSec THEN <<>> ELSE <<":">> \o Pad(FmtInt(x.s[1]), 2)
        tail == IF x.mer = MerNone THEN <<>>
                ELSE IF x.style = "tight"
                     THEN (IF x.mer = "AM" THEN <<"a", "m">> ELSE <<"p", "m">>)
                     ELSE (IF x.mer = "AM" THEN <<" ", "A", "M">> ELSE <<" ", "P", "M">>)
        junk == IF x.style = "glued" THEN <<"X">> ELSE <<>>
    IN hh \o <<":">> \o mm \o ss \o tail \o junk

\* "dmy" is first/second/year, "iso" is year-month-day with first = month and
\* second = day.  "slash": 03/04/2024; "dash": 3-4-2024; "glued": x03/04/2024,
\* which holds no date token
DateFirsts  == {0, 3, 4, 13, 32}
DateSeconds == {4, 13}
DateYears   == {24, 2024}
DateStyles  == {"slash", "dash", "glued"}

DateInputs ==
    {x \in [kind : {"date"}, form : {"dmy", "iso"}, a : DateFirsts, b : DateSeconds,
            y : DateYears, style : DateStyles] :
        x.form = "iso" => (x.style # "slash" /\ x.y = 2024 /\ x.a \in {4, 13})}

DateText(x) ==
    LET w  == IF x.form = "iso" \/ x.style # "dash" THEN 2 ELSE 1
        a  == Pad(FmtInt(x.a), w)
        b  == Pad(FmtInt(x.b), w)
        y  == Pad(FmtInt(x.y), IF x.form = "iso" THEN 4 ELSE 1)
        sep == IF x.form = "iso" \/ x.style = "dash" THEN <<"-">> ELSE <<"/">>
    IN (IF x.style = "glued" THEN <<"x">> ELSE <<>>)
       \o (IF x.form = "iso" THEN y \o sep \o a \o sep \o b
                              ELSE a \o sep \o b \o sep \o y)

\* other values: no time, no date
PlainInputs == {[kind |-> "plain", text |-> t] : t \in {<<>>, <<"W","H","-","0","7">>}}

CmpInputs == TimeInputs \cup DateInputs \cup PlainInputs

CmpText(x) == IF x.kind = "time" THEN TimeText(x)
              ELSE IF x.kind = "date" THEN DateText(x)
              ELSE x.text

(***************************************************************************)
(* Assignment.  A cost matrix is a sequence of rows, each a sequence of    *)
(* costs; rows and columns are numbered from 1 (Python's index + 1).       *)
(***************************************************************************)
\* an exception leaving a function
\* line 484: M, N = len(C), len(C[0]) if C else 0
GreedyDims(Cm) == IF Cm # <<>> THEN <<Len(Cm), Len(Cm[1])>> ELSE <<0, 0>>

\* GreedyCells without line 492: a used column stays a candidate
GreedyCells_ColumnsReused(dims, ui, uj) ==
    {c \in (1..dims[1]) \X (1..dims[2]) : c[1] \notin ui}

\* GreedyCells without line 490: a used row stays a candidate
GreedyCells_RowsReused(dims, ui, uj) ==
    {c \in (1..dims[1]) \X (1..dims[2]) : c[2] \notin uj}

\* lines 489-492: the cells the scan looks at
GreedyCells(dims, ui, uj) ==
    {c \in (1..dims[1]) \X (1..dims[2]) : c[1] \notin ui /\ c[2] \notin uj}

\* the scan keeps the first cell it sees (line 495 accepts every cell once)
GreedyBest_FirstCell(Cm, cells) ==
    IF cells = {} THEN None
    ELSE CHOOSE c \in cells : \A d \in cells :
            c[1] < d[1] \/ (c[1] = d[1] /\ c[2] <= d[2])

\* lines 488-496: the first cell, in row-major order, of least cost; None when
\* the scan sees no cell (best stays (None, None, inf))
GreedyBest(Cm, cells) ==
    IF cells = {} THEN None
    ELSE CHOOSE c \in cells : \A d \in cells :
            \/ Cm[c[1]][c[2]] < Cm[d[1]][d[2]]
            \/ /\ Cm[c[1]][c[2]] = Cm[d[1]][d[2]]
               /\ (c[1] < d[1] \/ (c[1] = d[1] /\ c[2] <= d[2]))

\* line 497 with the comparison turned round: the loop ends on a cell within
\* the threshold
GreedyBreaks_Inverted(Cm, best, thresh) ==
    best = None \/ Cm[best[1]][best[2]] <= thresh

\* line 497: the loop ends
GreedyBreaks(Cm, best, thresh) ==
    best = None \/ Cm[best[1]][best[2]] > thresh

\* lines 487-501: the loop of greedy_assign from the used rows ui, the used
\* columns uj and the pairings (ri, cj) accepted so far
RECURSIVE GreedyLoop(_, _, _, _, _, _)
GreedyLoop(Cm, thresh, ui, uj, ri, cj) ==
    LET Turn(best) ==
            IF GreedyBreaks(Cm, best, thresh) THEN <<ri, cj>>
            ELSE GreedyLoop(Cm, thresh, ui \cup {best[1]}, uj \cup {best[2]},
                            Append(ri, best[1]), Append(cj, best[2]))
    IN Turn(GreedyBest(Cm, GreedyCells(GreedyDims(Cm), ui, uj)))

\* lines 481-501: greedy_assign(C, thresh) returns (ri, cj)
greedy_assign(Cm, thresh) == GreedyLoop(Cm, thresh, {}, {}, <<>>, <<>>)

\* line 527 without "and C and C[0]": the solver is given every matrix
UseSolver_Unguarded(has_scipy, Cm) == has_scipy

\* line 527: HAS_SCIPY and C and C[0]
UseSolver(has_scipy, Cm) == has_scipy /\ Cm # <<>> /\ Cm[1] # <<>>

\* the injective maps from 1..k into 1..n
Injections(k, n) ==
    {f \in [1..k -> 1..n] : \A x, y \in 1..k : x # y => f[x] # f[y]}

\* the complete one-to-one assignments of an M x N matrix, each a set of cells:
\* every row is assigned when M <= N, every column when N < M
CompleteAssignments(M, N) ==
    IF M <= N THEN {{<<i, f[i]>> : i \in 1..M} : f \in Injections(M, N)}
              ELSE {{<<g[j], j>> : j \in 1..N} : g \in Injections(N, M)}

RECURSIVE SumOver(_, _)
SumOver(Cm, cells) ==
    IF cells = {} THEN 0
    ELSE LET c == CHOOSE x \in cells : TRUE
         IN Cm[c[1]][c[2]] + SumOver(Cm, cells \ {c})

\* scipy.optimize.linear_sum_assignment(C): a complete assignment of least
\* total cost; which one of several is the library's choice.  An array without
\* rows is not a matrix: the library returns nothing for it, it raises.
LeastTotal(Cm, all) ==
    {a \in all : \A other \in all : SumOver(Cm, a) <= SumOver(Cm, other)}

linear_sum_assignment(Cm) ==
    IF Cm = <<>> THEN {} ELSE LeastTotal(Cm, CompleteAssignments(Len(Cm), Len(Cm[1])))

\* the cells of an assignment as (ri, cj): rows ascending, as the solver
\* returns them
RECURSIVE CellsByRow(_)
CellsByRow(cells) ==
    IF cells = {} THEN <<>>
    ELSE LET c == CHOOSE x \in cells : \A y \in cells : x[1] <= y[1]
         IN <<c>> \o CellsByRow(cells \ {c})

\* lines 535-538 without the test of line 537: every pairing of the solver is
\* accepted
SolverFilter_KeepsAll(Cm, pairs, thresh) == pairs

\* lines 535-538: the pairings of the solver with cost <= assign_thresh
SolverFilter(Cm, pairs, thresh) ==
    SelectSeq(pairs, LAMBDA c : Cm[c[1]][c[2]] <= thresh)

\* the matrices of the assignment runs
MaxRows == 2
MaxCols == 2
CostValues   == {1, 2, 4}
ThreshValues == {0, 1, 2, 4}
Matrices ==
    UNION {[1..M -> [1..N -> CostValues]] : <<M, N>> \in (0..MaxRows) \X (0..MaxCols)}

VARIABLES
    pc,             \* the step the run is at
    cmpA,           \* pure functions: the first value, by its components
    cmpB,           \* pure functions: the second value
    cmpOut,         \* pure functions: what the function returned
    HAS_SCIPY,      \* line 15-19: scipy.optimize imported
    has_numpy,      \* line 528-531: numpy imports
    assign_thresh,  \* the acceptance threshold, in the unit of the costs
    C,              \* the cost matrix
    used_i,         \* greedy_assign: the rows used
    used_j,         \* greedy_assign: the columns used
    row_idx,        \* the rows of the accepted pairings, in order
    col_idx,        \* the columns of the accepted pairings, in order
    path,           \* which solver ran: "none", "solver" or "greedy"
    error,          \* the exception that left the engine, "" when none
    barcode_data,   \* the decoder's result list, as loaded from barcode_json
    expected,       \* what expected_json holds: the fields in the order of the object
    barcode_text,   \* the decoded text of the barcode
    harvest_raw,    \* not --no-raw
    strict_strings, \* --strict-strings
    labeled_pairs,  \* what parse_pairs_for_context returned
    lib_entries,    \* the entries of the barcode library
    rows,           \* the rows reported so far
    summary,        \* the counts of the statuses of the rows
    missed,         \* library.missed_by_ocr
    run,            \* 1 in the first run of the tool on its inputs, 2 in the second
    first_report,   \* the report of the first run, None during the first run
    solved,         \* what linear_sum_assignment returned in the first run
    parse_lines,    \* parse_pairs_for_context: lines
    parse_i,        \* parse_pairs_for_context: i, counted from 1
    parse_pairs,    \* parse_pairs_for_context: pairs, before the dedupe
    value_rows,     \* history: the lines that were zipped to a header as its values
    parse_steps     \* what an iteration of the loop does at each line of the text

cmpVars    == <<cmpA, cmpB, cmpOut>>
configVars == <<HAS_SCIPY, has_numpy, assign_thresh>>
assignVars == <<used_i, used_j, row_idx, col_idx, path>>

inputVars  == <<barcode_data, expected, barcode_text, harvest_raw, strict_strings>>
libVars    == <<labeled_pairs, lib_entries>>
reportVars == <<rows, summary, missed>>
runVars    == <<run, first_report>>
parseVars  == <<parse_lines, parse_i, parse_pairs, value_rows, parse_steps>>
mainVars   == <<inputVars, libVars, reportVars, runVars, parseVars>>

vars == <<pc, cmpVars, configVars, C, assignVars, error, mainVars, solved>>

\* the parts of the state a run does not use
CompareIdle == cmpA = None /\ cmpB = None /\ cmpOut = None
AssignIdle  ==
    /\ HAS_SCIPY = FALSE /\ has_numpy = FALSE /\ assign_thresh = 0
    /\ C = <<>> /\ used_i = {} /\ used_j = {} /\ row_idx = <<>> /\ col_idx = <<>>
    /\ path = "none" /\ error = ""
ParseIdle ==
    /\ parse_lines = <<>> /\ parse_i = 1 /\ parse_pairs = <<>> /\ value_rows = {}
    /\ parse_steps = <<>>
NoSummary == [matched |-> 0, mismatched |-> 0, missing |-> 0]
MainIdle ==
    /\ barcode_data = <<>>
    /\ expected = <<>> /\ barcode_text = <<>>
    /\ harvest_raw = FALSE /\ strict_strings = FALSE
    /\ labeled_pairs = <<>> /\ lib_entries = <<>>
    /\ rows = <<>> /\ summary = NoSummary /\ missed = <<>>
    /\ run = 1 /\ first_report = None /\ solved = None
    /\ ParseIdle

(***************************************************************************)
(* The comparators applied to two values                                   *)
(***************************************************************************)
InitCompare ==
    /\ pc = "cmp"
    /\ cmpA \in CmpInputs
    /\ cmpB \in CmpInputs
    /\ cmpA.kind = "plain" => cmpB.kind # "plain"
    /\ cmpOut = None
    /\ AssignIdle
    /\ MainIdle

CompareTimes ==
    /\ pc = "cmp"
    /\ pc' = "cmp_time"
    /\ LET Apply(x, y) == <<times_equal_flexible(x, y), times_equal_flexible(y, x)>>
       IN cmpOut' = Apply(CmpText(cmpA), CmpText(cmpB))
    /\ UNCHANGED <<cmpA, cmpB, configVars, C, assignVars, error, mainVars, solved>>

CompareDates ==
    /\ pc = "cmp"
    /\ pc' = "cmp_date"
    /\ LET Apply(x, y) == <<dates_equal_flexible(x, y), dates_equal_flexible(y, x)>>
       IN cmpOut' = Apply(CmpText(cmpA), CmpText(cmpB))
    /\ UNCHANGED <<cmpA, cmpB, configVars, C, assignVars, error, mainVars, solved>>

CompareEqual ==
    /\ pc = "cmp"
    /\ pc' = "cmp_equal"
    /\ LET Apply(x, y) == <<equal_strict_or_flexible(x, y), equal_strict_or_flexible(y, x)>>
       IN cmpOut' = Apply(CmpText(cmpA), CmpText(cmpB))
    /\ UNCHANGED <<cmpA, cmpB, configVars, C, assignVars, error, mainVars, solved>>

NextCompare == CompareTimes \/ CompareDates \/ CompareEqual

SpecCompare == InitCompare /\ [][NextCompare]_vars
(***************************************************************************)
(* classify_value applied to one value.  A value is one token or two       *)
(* tokens with a space between them; a token is given with the shapes that *)
(* occur in it: a time H:MM[:SS][ AM|PM], a date D/M/Y, D-M-Y or           *)
(* YYYY-MM-DD, a truck id, a warehouse code, a rack code (a warehouse code *)
(* or a letter and 2-3 digits), a run of 8 or more letters, digits and     *)
(* hyphens with a digit, a run of 5-12 of them that starts with letters    *)
(* and digits up to a digit; "small_int" marks a token of 1-4 digits.      *)
(***************************************************************************)
Token(text, shapes) == [text |-> text, shapes |-> shapes]

NoToken == Token(<<>>, {"none"})

ClassifyTokens ==
    {
     Token(<<>>, {}),
     Token(<<" ">>, {}),
     Token(<<"1", "0", ":", "1", "5", " ", "A", "M">>, {"time"}),
     Token(<<"1", "0", ":", "3", "0">>, {"time"}),
     Token(<<"0", "4", "/", "2", "5", "/", "2", "0", "2", "4">>, {"date"}),
     Token(<<"2", "0", "2", "4", "-", "0", "4", "-", "2", "5">>, {"date", "alnum_long", "code_short"}),
     Token(<<"T", "R", "K", "-", "1", "2", "3", "4">>, {"truck", "alnum_long"}),
     Token(<<"T", "R", "U", "C", "K", " ", "1", "2">>, {"truck"}),
     Token(<<"W", "H", "-", "0", "7">>, {"wh", "rack"}),
     Token(<<"W", "H", "7">>, {"wh", "rack"}),
     Token(<<"A", "1", "2">>, {"rack"}),
     Token(<<"A", "1", "2", "B", "3", "4", "C", "5">>, {"alnum_long", "code_short"}),
     Token(<<"P", "L", "T", "9", "8">>, {"code_short"}),
     Token(<<"1", "2", "3", "4", "5">>, {"code_short"}),
     Token(<<"7">>, {"small_int"}),
     Token(<<"1", "2", "3", "4">>, {"small_int"}),
     Token(<<"P", "l", "a", "n", "t">>, {}),
     Token(<<"D", "o", "c", "k", " ", "B">>, {})
    }

ClassifyInputs ==
    {[kind |-> "tokens", first |-> a, second |-> b] :
        a \in ClassifyTokens, b \in ClassifyTokens \cup {NoToken}}

ClassifyText(x) ==
    IF x.second = NoToken THEN x.first.text ELSE x.first.text \o <<" ">> \o x.second.text

InitClassify ==
    /\ pc = "classify"
    /\ cmpA \in ClassifyInputs
    /\ cmpB = None
    /\ cmpOut = None
    /\ AssignIdle
    /\ MainIdle

\* lines 221-233: classify_value(v)
Classify ==
    /\ pc = "classify"
    /\ pc' = "classified"
    /\ cmpOut' = classify_value(ClassifyText(cmpA))
    /\ UNCHANGED <<cmpA, cmpB, configVars, C, assignVars, error, mainVars, solved>>

NextClassify == Classify

SpecClassify == InitClassify /\ [][NextClassify]_vars

(***************************************************************************)
(* The class penalty of pair_cost applied to two values.  A value is given *)
(* with what it is by construction: its class, the 24-hour (hour, minute)  *)
(* it is as a whole, if it is a time, and the (year, month, day) of the    *)
(* date it contains, if it contains one.                                   *)
(***************************************************************************)
Shaped(text, class, time, date) ==
    [kind |-> "shaped", text |-> text, class |-> class, time |-> time, date |-> date]

PenaltyInputs ==
    {
     Shaped(<<>>, "empty", None, None),
     Shaped(<<"1", "0", ":", "1", "5", " ", "A", "M">>, "time", <<10, 15>>, None),
     Shaped(<<"1", "0", ":", "1", "5">>, "time", <<10, 15>>, None),
     Shaped(<<"2", "2", ":", "1", "5">>, "time", <<22, 15>>, None),
     Shaped(<<"0", "4", "/", "2", "5", "/", "2", "0", "2", "4">>, "date", None, <<2024, 4, 25>>),
     Shaped(<<"0", "4", "-", "2", "5", "-", "2", "0", "2", "4">>, "date", None, <<2024, 4, 25>>),
     Shaped(<<"0", "4", "/", "2", "6", "/", "2", "0", "2", "4">>, "date", None, <<2024, 4, 26>>),
     Shaped(<<"0", "4", "/", "2", "5", "/", "2", "0", "2", "4", " ", "1", "0", ":", "1", "5">>, "time", None, <<2024, 4, 25>>),
     Shaped(<<"0", "4", "/", "2", "6", "/", "2", "0", "2", "4", " ", "1", "0", ":", "1", "5">>, "time", None, <<2024, 4, 26>>),
     Shaped(<<"W", "H", "-", "0", "7">>, "wh", None, None),
     Shaped(<<"T", "R", "K", "-", "9", "9", "8">>, "truck", None, None),
     Shaped(<<"P", "l", "a", "n", "t">>, "string", None, None)
    }

InitPenalty ==
    /\ pc = "penalty"
    /\ cmpA \in PenaltyInputs
    /\ cmpB \in PenaltyInputs
    /\ cmpOut = None
    /\ AssignIdle
    /\ MainIdle

\* lines 462-466: t_pen for the expected value cmpA and the pair's value cmpB
Penalty ==
    /\ pc = "penalty"
    /\ pc' = "penalised"
    /\ cmpOut' = <<ClassPenalty(cmpA.text, cmpB.text)>>
    /\ UNCHANGED <<cmpA, cmpB, configVars, C, assignVars, error, mainVars, solved>>

NextPenalty == Penalty

SpecPenalty == InitPenalty /\ [][NextPenalty]_vars

(***************************************************************************)
(* labels_match applied to a key and a label.  Each is given with what it  *)
(* normalizes to by construction: lowercase, every run of other characters *)
(* than letters and digits a space, no space at the ends.                  *)
(***************************************************************************)
Labelled(text, norm) == [kind |-> "label", text |-> text, norm |-> norm]

LabelInputs ==
    {
     Labelled(<<>>, <<>>),
     Labelled(<<"#">>, <<>>),
     Labelled(<<"(", ")">>, <<>>),
     Labelled(<<"D", "e", "s", "t">>, <<"d", "e", "s", "t">>),
     Labelled(<<"d", "e", "s", "t">>, <<"d", "e", "s", "t">>),
     Labelled(<<" ", "D", "E", "S", "T", ":", " ">>, <<"d", "e", "s", "t">>),
     Labelled(<<"S", "h", "i", "p", " ", "D", "a", "t", "e">>, <<"s", "h", "i", "p", " ", "d", "a", "t", "e">>),
     Labelled(<<"s", "h", "i", "p", "-", "d", "a", "t", "e">>, <<"s", "h", "i", "p", " ", "d", "a", "t", "e">>),
     Labelled(<<"D", "a", "t", "e">>, <<"d", "a", "t", "e">>),
     Labelled(<<"L", "o", "c">>, <<"l", "o", "c">>),
     Labelled(<<"G", "a", "t", "e", " ", "#">>, <<"g", "a", "t", "e">>)
    }

InitLabels ==
    /\ pc = "labels"
    /\ cmpA \in LabelInputs
    /\ cmpB \in LabelInputs
    /\ cmpOut = None
    /\ AssignIdle
    /\ MainIdle

\* lines 94-102 and 452-453: 0.6 * (1.0 - labels_match(ocr_key, lbl))
LabelsMatch ==
    /\ pc = "labels"
    /\ pc' = "labels_matched"
    /\ cmpOut' = <<LabelCost(norm_label(cmpA.text), norm_label(cmpB.text))>>
    /\ UNCHANGED <<cmpA, cmpB, configVars, C, assignVars, error, mainVars, solved>>

NextLabels == LabelsMatch

SpecLabels == InitLabels /\ [][NextLabels]_vars

(***************************************************************************)
(* ocr_global_assignment, lines 527-544: the assignment                    *)
(***************************************************************************)
\* lines 527-542: which solver runs.  greedy_assign starts with nothing used.
SolverSelect ==
    /\ pc = "solve"
    /\ pc' = IF UseSolver(HAS_SCIPY, C) /\ has_numpy THEN "solver" ELSE "greedy"
    /\ path' = IF UseSolver(HAS_SCIPY, C) /\ has_numpy THEN "solver" ELSE "greedy"
    /\ used_i' = {} /\ used_j' = {}
    /\ row_idx' = <<>> /\ col_idx' = <<>>
    /\ UNCHANGED <<cmpVars, configVars, C, error, mainVars, solved>>

\* lines 533-538: the solver returns, and the threshold filters its pairings.
\* The solver is a function of the matrix: a second run on the same matrix gets
\* what the first run got.
SolverReturns ==
    /\ pc = "solver"
    /\ \E a \in linear_sum_assignment(C) :
          LET Accept(kept) ==
                  /\ row_idx' = [k \in 1..Len(kept) |-> kept[k][1]]
                  /\ col_idx' = [k \in 1..Len(kept) |-> kept[k][2]]
          IN /\ run = 2 => solved = <<a>>
             /\ solved' = <<a>>
             /\ Accept(SolverFilter(C, CellsByRow(a), assign_thresh))
    /\ pc' = "assigned"
    /\ UNCHANGED <<cmpVars, configVars, C, used_i, used_j, path, error, mainVars>>

\* lines 533-534 raise: nothing around the call catches
SolverRaises ==
    /\ pc = "solver"
    /\ pc' = "raised"
    /\ error' = "solver"
    /\ UNCHANGED <<cmpVars, configVars, C, assignVars, mainVars, solved>>

\* lines 487-500: one turn of the loop of greedy_assign
GreedyTurn ==
    /\ pc = "greedy"
    /\ LET Turn(best) ==
              IF GreedyBreaks(C, best, assign_thresh)
              THEN /\ pc' = "assigned"
                   /\ UNCHANGED <<used_i, used_j, row_idx, col_idx>>
              ELSE /\ pc' = "greedy"
                   /\ used_i' = used_i \cup {best[1]}
                   /\ used_j' = used_j \cup {best[2]}
                   /\ row_idx' = Append(row_idx, best[1])
                   /\ col_idx' = Append(col_idx, best[2])
       IN Turn(GreedyBest(C, GreedyCells(GreedyDims(C), used_i, used_j)))
    /\ UNCHANGED <<cmpVars, configVars, C, path, error, mainVars, solved>>

NextAssign == SolverSelect \/ SolverReturns \/ SolverRaises \/ GreedyTurn

\* the assignment alone, on every matrix and threshold of the bounds
InitAssign ==
    /\ pc = "solve"
    /\ CompareIdle
    /\ HAS_SCIPY \in BOOLEAN
    /\ has_numpy \in BOOLEAN
    /\ assign_thresh \in ThreshValues
    /\ C \in Matrices
    /\ used_i = {} /\ used_j = {} /\ row_idx = <<>> /\ col_idx = <<>>
    /\ path = "none"
    /\ error = ""
    /\ MainIdle

SpecAssign == InitAssign /\ [][NextAssign]_vars

\* the loop of greedy_assign is sequential code: a turn that can run does run
SpecAssignFair == SpecAssign /\ WF_vars(GreedyTurn)

(***************************************************************************)
(* The inputs of main: the text of a barcode of up to MaxLines lines, up   *)
(* to MaxFields expected fields with distinct keys, and the options.       *)
(***************************************************************************)
Line_Dest == <<"D", "e", "s", "t", ":", " ", "W", "H", "-", "0", "7">>
Line_Loc == <<"L", "o", "c", ":", " ", "W", "H", "-", "0", "7">>
Line_Date == <<"D", "a", "t", "e", ":", " ", "0", "4", "-", "2", "5", "-", "2", "0", "2", "4">>
Line_Truck == <<"T", "R", "K", "-", "9", "9", "8">>
Line_Header == <<"D", "e", "s", "t", "\t", "G", "a", "t", "e", "\t", "N", "a", "m", "e">>
Line_Values == <<"W", "H", "-", "0", "7", "\t", "1", "2", "\t", "P", "l", "a", "n", "t", " ", "A">>
TextLines == {Line_Dest, Line_Loc, Line_Date, Line_Truck, Line_Header, Line_Values}

MaxLines == 2

RECURSIVE JoinLines(_, _)
JoinLines(ls, k) ==
    IF k > Len(ls) THEN <<>>
    ELSE IF k = Len(ls) THEN ls[k]
    ELSE ls[k] \o <<"\n">> \o JoinLines(ls, k + 1)

BarcodeTexts == {JoinLines(ls, 1) : ls \in UNION {[1..n -> TextLines] : n \in 0..MaxLines}}

\* JSON's null, and a JSON number given by the text str() makes of it
JsonNull == <<"null">>
JsonNumber(digits) == <<"number", digits>>
IsJsonNumber(v) == Len(v) = 2 /\ v[1] = "number"

\* what json.load returns for an expected_json that holds a list
JsonList == <<[json |-> "list"]>>
NotMapping(e) == Len(e) = 1 /\ "json" \in DOMAIN e[1]

Item(k, v) == [key |-> k, value |-> v]

\* line 512: "" if v is None else str(v)
StrOfValue(v) ==
    IF v = JsonNull THEN <<>>
    ELSE IF IsJsonNumber(v) THEN v[2]
    ELSE v

\* line 512: expected_items
expected_items(e) == [k \in 1..Len(e) |-> Item(e[k].key, StrOfValue(e[k].value))]

Field_Dest == Item(<<"D", "e", "s", "t">>, <<"w", "h", "-", "0", "7">>)
Field_ShipDate == Item(<<"S", "h", "i", "p", " ", "D", "a", "t", "e">>, <<"0", "4", "/", "2", "5", "/", "2", "0", "2", "4">>)
Field_Truck == Item(<<"T", "r", "u", "c", "k">>, <<"T", "R", "K", "-", "9", "9", "8">>)
Field_Note == Item(<<"N", "o", "t", "e">>, <<>>)
ExpectedFields == {Field_Dest, Field_ShipDate, Field_Truck, Field_Note}

MaxFields == 2

\* expected.items(): the keys of a JSON object are distinct
Expecteds ==
    {e \in UNION {[1..n -> ExpectedFields] : n \in 0..MaxFields} :
        \A a, b \in DOMAIN e : a # b => e[a].key # e[b].key}

\* --assign-thresh 0.3 and the default 0.75, in the unit of the costs
AssignThresholds == {120 * LabelScale, 300 * LabelScale}

(***************************************************************************)
(* main (lines 659-748) on one barcode text and one expected object        *)
(***************************************************************************)
Init ==
    /\ pc = "main"
    /\ CompareIdle
    /\ HAS_SCIPY \in BOOLEAN
    /\ has_numpy \in BOOLEAN
    /\ assign_thresh \in AssignThresholds
    /\ C = <<>>
    /\ used_i = {} /\ used_j = {} /\ row_idx = <<>> /\ col_idx = <<>>
    /\ path = "none"
    /\ error = ""
    /\ expected \in Expecteds
    /\ barcode_text \in BarcodeTexts
    /\ barcode_data = <<[text |-> barcode_text]>>
    /\ harvest_raw \in BOOLEAN
    /\ strict_strings \in BOOLEAN
    /\ labeled_pairs = <<>> /\ lib_entries = <<>>
    /\ rows = <<>> /\ summary = NoSummary /\ missed = <<>>
    /\ run = 1 /\ first_report = None /\ solved = None
    /\ ParseIdle

\* lines 686-692: build_barcode_library
BuildLibrary ==
    /\ pc = "main"
    /\ IF barcode_text = JsonNull
       THEN \* line 106: None has no replace
            /\ pc' = "raised"
            /\ error' = "AttributeError"
            /\ UNCHANGED libVars
       ELSE /\ pc' = "library"
            /\ LET Built(pairs) ==
                      /\ labeled_pairs' = pairs
                      /\ lib_entries' = LibraryEntries(pairs, barcode_text, harvest_raw, strict_strings)
               IN Built(parse_pairs_for_context(barcode_text))
            /\ UNCHANGED error
    /\ UNCHANGED <<cmpVars, configVars, C, assignVars, inputVars, reportVars,
                   runVars, solved, parseVars>>

\* lines 512-514: expected_items and the cost matrix of the expected fields and
\* the parsed pairs
BuildCost ==
    /\ pc = "library"
    /\ IF NotMapping(expected)
       THEN \* line 512: what was loaded has no items()
            /\ pc' = "raised"
            /\ error' = "AttributeError"
            /\ UNCHANGED C
       ELSE /\ pc' = "solve"
            /\ C' = build_cost_matrix(expected_items(expected), labeled_pairs)
            /\ UNCHANGED error
    /\ UNCHANGED <<cmpVars, configVars, assignVars, mainVars, solved>>

\* lines 559-595: the row of the next expected field
RowStep ==
    /\ pc = "assigned"
    /\ Len(rows) < Len(expected)
    /\ LET Add(r) ==
              /\ rows' = Append(rows, r)
              /\ summary' = Tally(summary, r.status)
       IN Add(RowFor(expected_items(expected), Len(rows) + 1, labeled_pairs, row_idx, col_idx,
                     barcode_text))
    /\ UNCHANGED <<pc, cmpVars, configVars, C, assignVars, error, inputVars, libVars,
                   missed, runVars, solved, parseVars>>

\* lines 701-710: the consumed values and the missed list
Missed ==
    /\ pc = "assigned"
    /\ Len(rows) = Len(expected)
    /\ pc' = "done"
    /\ missed' \in library_remaining_to_list(LibMap(lib_entries), ConsumedValues(rows))
    /\ UNCHANGED <<cmpVars, configVars, C, assignVars, error, inputVars, libVars,
                   rows, summary, runVars, solved, parseVars>>

\* lines 715-732: what of the report depends on the run
Report ==
    [results |-> rows, summary |-> summary,
     entries_count |-> Len(lib_entries), missed_by_ocr |-> missed]

\* the tool is run again on the same inputs, in a new process
Rerun ==
    /\ pc = "done"
    /\ run = 1
    /\ run' = 2
    /\ first_report' = Report
    /\ pc' = "main"
    /\ C' = <<>>
    /\ used_i' = {} /\ used_j' = {} /\ row_idx' = <<>> /\ col_idx' = <<>>
    /\ path' = "none"
    /\ labeled_pairs' = <<>> /\ lib_entries' = <<>>
    /\ rows' = <<>> /\ summary' = NoSummary /\ missed' = <<>>
    /\ UNCHANGED <<cmpVars, configVars, error, inputVars, solved, parseVars>>

Next ==
    \/ BuildLibrary
    \/ BuildCost
    \/ SolverSelect
    \/ SolverReturns
    \/ SolverRaises
    \/ GreedyTurn
    \/ RowStep
    \/ Missed

Spec == Init /\ [][Next]_vars

\* main run twice on the same inputs: at most one expected field, the default
\* threshold
InitRerun ==
    /\ Init
    /\ Len(expected) <= 1
    /\ assign_thresh = 300 * LabelScale

NextRerun == Next \/ Rerun

SpecRerun == InitRerun /\ [][NextRerun]_vars

(***************************************************************************)
(* parse_pairs_for_context (lines 284-351), one iteration of its loop at a *)
(* time.  The text is built of lines that are given with what they are by  *)
(* construction: whether the loop skips the line (blank or a separator),   *)
(* the inline label:value pairs of the line, its fields, which of the      *)
(* fields are label:value cells, and whether the fields look like values.  *)
(***************************************************************************)
Lined(text, skipped, inline, fields, colon, valueish) ==
    [kind |-> "line", text |-> text, skipped |-> skipped, inline |-> inline,
     fields |-> fields, colon |-> colon, valueish |-> valueish]

ParseLineInputs ==
    {
        Lined(<<>>,
              TRUE, <<>>,
              <<>>, <<>>, FALSE),
        Lined(<<"-", "-", "-", "-", "-", "-", "-", "-", "-", "-">>,
              TRUE, <<>>,
              <<<<"-", "-", "-", "-", "-", "-", "-", "-", "-", "-">>>>, <<FALSE>>, FALSE),
        Lined(<<"D", "e", "s", "t", ":", " ", "W", "H", "-", "0", "7">>,
              FALSE, <<Pair(<<"D", "e", "s", "t">>, <<"W", "H", "-", "0", "7">>)>>,
              <<<<"D", "e", "s", "t", ":", " ", "W", "H", "-", "0", "7">>>>, <<TRUE>>, TRUE),
        Lined(<<"D", "e", "s", "t", "\t", "W", "H", "-", "0", "7">>,
              FALSE, <<>>,
              <<<<"D", "e", "s", "t">>, <<"W", "H", "-", "0", "7">>>>, <<FALSE, FALSE>>, TRUE),
        Lined(<<"D", "e", "s", "t", ":", " ", "W", "H", "-", "0", "7", "\t", "L", "o", "c", ":", " ", "A", "1", "2">>,
              FALSE, <<Pair(<<"D", "e", "s", "t">>, <<"W", "H", "-", "0", "7">>), Pair(<<"L", "o", "c">>, <<"A", "1", "2">>)>>,
              <<<<"D", "e", "s", "t", ":", " ", "W", "H", "-", "0", "7">>, <<"L", "o", "c", ":", " ", "A", "1", "2">>>>, <<TRUE, TRUE>>, TRUE),
        Lined(<<"D", "e", "s", "t", ":", " ", "W", "H", "-", "0", "7", "\t", "P", "l", "a", "n", "t">>,
              FALSE, <<Pair(<<"D", "e", "s", "t">>, <<"W", "H", "-", "0", "7">>)>>,
              <<<<"D", "e", "s", "t", ":", " ", "W", "H", "-", "0", "7">>, <<"P", "l", "a", "n", "t">>>>, <<TRUE, FALSE>>, TRUE),
        Lined(<<"D", "e", "s", "t", "\t", "G", "a", "t", "e", "\t", "N", "a", "m", "e">>,
              FALSE, <<>>,
              <<<<"D", "e", "s", "t">>, <<"G", "a", "t", "e">>, <<"N", "a", "m", "e">>>>, <<FALSE, FALSE, FALSE>>, FALSE),
        Lined(<<"W", "H", "-", "0", "7", "\t", "1", "2", "\t", "P", "l", "a", "n", "t", " ", "A">>,
              FALSE, <<>>,
              <<<<"W", "H", "-", "0", "7">>, <<"1", "2">>, <<"P", "l", "a", "n", "t", " ", "A">>>>, <<FALSE, FALSE, FALSE>>, TRUE),
        Lined(<<"D", "e", "s", "t", "\t", "W", "H", "-", "0", "7", "\t", "G", "a", "t", "e", "\t", "1", "2">>,
              FALSE, <<>>,
              <<<<"D", "e", "s", "t">>, <<"W", "H", "-", "0", "7">>, <<"G", "a", "t", "e">>, <<"1", "2">>>>, <<FALSE, FALSE, FALSE, FALSE>>, TRUE)
    }

MaxParseLines == 3

ParseInputs == UNION {[1..n -> ParseLineInputs] : n \in 1..MaxParseLines}

\* lines 317-325: the line j holds the values of the header cells toks
HeaderZips(lines, toks, j) ==
    /\ Len(toks) > 2
    /\ j <= Len(lines)
    /\ Len(split_fields(lines[j])) = Len(toks)
    /\ looks_valueish(split_fields(lines[j]))
    /\ ~looks_valueish(toks)

\* lines 290-343, one iteration of the while loop on the line i:
\* <<the pairs it appends, the next line, the value row it consumed>>
ParseIteration(lines, i) ==
    LET Cells(ln, toks, r, j) ==
            <<InlinePairsFrom(ln, 1) \o r[1], r[2],
              IF HeaderZips(lines, toks, j) THEN {j} ELSE {}>>
        Fields(ln, toks) ==
            Cells(ln, toks, FieldPairs(lines, i, toks), NextNonBlank(lines, i + 1))
        Line(ln) ==
            IF ln = <<>> \/ SepLineMatch(ln) THEN <<<<>>, i + 1, {}>>
            ELSE Fields(ln, split_fields(ln))
    IN Line(strip(lines[i]))

\* an iteration depends on the lines and the cursor alone: what it does at
\* each line is laid out when the text is chosen
ParseSteps(lines) == [i \in 1..Len(lines) |-> ParseIteration(lines, i)]

InitParse ==
    /\ pc = "parse"
    /\ cmpA \in ParseInputs
    /\ cmpB = None /\ cmpOut = None
    /\ AssignIdle
    /\ barcode_data = <<>>
    /\ expected = <<>>
    /\ barcode_text = JoinLines([k \in 1..Len(cmpA) |-> cmpA[k].text], 1)
    /\ harvest_raw = FALSE /\ strict_strings = FALSE
    /\ labeled_pairs = <<>> /\ lib_entries = <<>>
    /\ rows = <<>> /\ summary = NoSummary /\ missed = <<>>
    /\ run = 1 /\ first_report = None /\ solved = None
    /\ parse_lines = <<>> /\ parse_i = 1 /\ parse_pairs = <<>> /\ value_rows = {}
    /\ parse_steps = ParseSteps(get_lines(barcode_text))

\* lines 287-289
ParseBegin ==
    /\ pc = "parse"
    /\ pc' = "parse_loop"
    /\ parse_lines' = get_lines(barcode_text)
    /\ parse_i' = 1
    /\ parse_pairs' = <<>>
    /\ UNCHANGED <<cmpVars, configVars, C, assignVars, error, inputVars, libVars,
                   reportVars, runVars, solved, value_rows, parse_steps>>

\* lines 290-343: the iteration at the cursor
ParseLine ==
    /\ pc = "parse_loop"
    /\ parse_i <= Len(parse_lines)
    /\ parse_pairs' = parse_pairs \o parse_steps[parse_i][1]
    /\ parse_i' = parse_steps[parse_i][2]
    /\ value_rows' = value_rows \cup parse_steps[parse_i][3]
    /\ UNCHANGED <<pc, cmpVars, configVars, C, assignVars, error, inputVars, libVars,
                   reportVars, runVars, solved, parse_lines, parse_steps>>

\* lines 345-351: the dedupe and the return
ParseDedupe ==
    /\ pc = "parse_loop"
    /\ parse_i > Len(parse_lines)
    /\ pc' = "parsed"
    /\ labeled_pairs' = DedupePairs(parse_pairs)
    /\ UNCHANGED <<cmpVars, configVars, C, assignVars, error, inputVars, lib_entries,
                   reportVars, runVars, solved, parseVars>>

NextParse == ParseBegin \/ ParseLine \/ ParseDedupe

SpecParse == InitParse /\ [][NextParse]_vars

\* the loop is sequential code: an iteration that can run does run
SpecParseFair == SpecParse /\ WF_vars(NextParse)

(***************************************************************************)
(* The loop of build_barcode_library over two parsed pairs (lines 370-407) *)
(* and the map of lines 439-441.  A pair is given with what it is by       *)
(* construction: whether its label holds a letter, the class of its value  *)
(* and the key form of its value (uppercase, whitespace collapsed).        *)
(***************************************************************************)
Labeled(text, letter) == [text |-> text, letter |-> letter]

Valued(text, class, norm) == [text |-> text, class |-> class, norm |-> norm]

KeepLabels ==
    {Labeled(<<"D", "e", "s", "t">>, TRUE),
     Labeled(<<"1", "2">>, FALSE),
     Labeled(<<"#">>, FALSE),
     Labeled(<<>>, FALSE)}

KeepValues ==
    {Valued(<<"1", "0", ":", "1", "5">>, "time", <<"1", "0", ":", "1", "5">>),
     Valued(<<"0", "4", "/", "2", "5", "/", "2", "0", "2", "4">>, "date", <<"0", "4", "/", "2", "5", "/", "2", "0", "2", "4">>),
     Valued(<<"T", "R", "K", "-", "9", "9", "8">>, "truck", <<"T", "R", "K", "-", "9", "9", "8">>),
     Valued(<<"W", "H", "-", "0", "7">>, "wh", <<"W", "H", "-", "0", "7">>),
     Valued(<<"w", "h", "-", "0", "7">>, "wh", <<"W", "H", "-", "0", "7">>),
     Valued(<<"A", "1", "2">>, "rack", <<"A", "1", "2">>),
     Valued(<<"A", "1", "2", "B", "3", "4", "C", "5">>, "alnum_long", <<"A", "1", "2", "B", "3", "4", "C", "5">>),
     Valued(<<"P", "L", "T", "9", "8">>, "code_short", <<"P", "L", "T", "9", "8">>),
     Valued(<<"1", "2">>, "small_int", <<"1", "2">>),
     Valued(<<"P", "l", "a", "n", "t">>, "string", <<"P", "L", "A", "N", "T">>),
     Valued(<<"P", "l", "a", "n", "t", " ", "A">>, "string", <<"P", "L", "A", "N", "T", " ", "A">>),
     Valued(<<>>, "empty", <<>>)}

Paired(l, v) ==
    [kind |-> "pair", label |-> l.text, letter |-> l.letter,
     value |-> v.text, class |-> v.class, norm |-> v.norm]

KeepInputs == {Paired(l, v) : l \in KeepLabels, v \in KeepValues}

InitLibrary ==
    /\ pc = "pairs"
    /\ cmpA \in KeepInputs
    /\ cmpB \in KeepInputs
    /\ cmpOut = None
    /\ AssignIdle
    /\ barcode_data = <<>>
    /\ expected = <<>> /\ barcode_text = <<>>
    /\ harvest_raw = FALSE
    /\ strict_strings \in BOOLEAN
    /\ labeled_pairs = <<Pair(cmpA.label, cmpA.value), Pair(cmpB.label, cmpB.value)>>
    /\ lib_entries = <<>>
    /\ rows = <<>> /\ summary = NoSummary /\ missed = <<>>
    /\ run = 1 /\ first_report = None /\ solved = None
    /\ ParseIdle

\* lines 370-407 and 439-441: entries and lib_map
KeepPairs ==
    /\ pc = "pairs"
    /\ pc' = "library"
    /\ lib_entries' = LabeledEntries(labeled_pairs, 1, strict_strings)
    /\ cmpOut' = LibMap(LabeledEntries(labeled_pairs, 1, strict_strings))
    /\ UNCHANGED <<cmpA, cmpB, configVars, C, assignVars, error, inputVars, labeled_pairs,
                   reportVars, runVars, solved, parseVars>>

NextLibrary == KeepPairs

SpecLibrary == InitLibrary /\ [][NextLibrary]_vars

(***************************************************************************)
(* Claims about the assignment (checked under SpecAssign)                  *)
(***************************************************************************)
NoDuplicates(seq) == \A a, b \in 1..Len(seq) : a # b => seq[a] # seq[b]

\* C1: on both solver paths the accepted pairings are injective in both
\* directions (no row and no column occurs in two pairings) and every accepted
\* pairing (i, j) has C[i][j] <= assign_thresh.
C1_InjectiveWithinThreshold ==
    /\ Len(row_idx) = Len(col_idx)
    /\ NoDuplicates(row_idx)
    /\ NoDuplicates(col_idx)
    /\ \A k \in 1..Len(row_idx) : C[row_idx[k]][col_idx[k]] <= assign_thresh

\* greedy_assign has accepted two pairings of a matrix that has a cell above the
\* threshold
C1_Witness ==
    /\ pc = "assigned"
    /\ path = "greedy"
    /\ Len(row_idx) = 2
    /\ \E i \in 1..Len(C) : \E j \in 1..Len(C[i]) : C[i][j] > assign_thresh

(***************************************************************************)
(* Claims about the comparators (checked under SpecCompare)                *)
(***************************************************************************)
\* what the components of a value say, without reading its text
IsTime(x) == x.kind = "time" /\ x.style \in {"plain", "tight"}

Hour24(x) == IF x.mer = "PM" /\ x.h # 12 THEN x.h + 12
             ELSE IF x.mer = "AM" /\ x.h = 12 THEN 0
             ELSE x.h

SameMeridianOrNone(x, y) ==
    \/ x.mer = MerNone /\ y.mer = MerNone
    \/ x.mer # MerNone /\ y.mer # MerNone /\ x.mer = y.mer

TimeEquivalent(x, y) ==
    /\ IsTime(x) /\ IsTime(y)
    /\ Hour24(x) = Hour24(y) /\ x.m = y.m
    /\ SameMeridianOrNone(x, y)

IsTimeText(x, t) == x.kind = "time" /\ TimeText(x) = t

Txt_2_30_PM   == <<"2", ":", "3", "0", " ", "P", "M">>
Txt_2_30_AM   == <<"2", ":", "3", "0", " ", "A", "M">>
Txt_14_30_00  == <<"1", "4", ":", "3", "0", ":", "0", "0">>

\* C4 as stated: equalStrictOrFlexible("2:30 PM", "14:30:00") is true, as for
\* every two whole times with the same 24-hour hour and minute of which only one
\* carries an AM/PM marker, and equalStrictOrFlexible("2:30 PM", "2:30 AM") is
\* false.
C4_Original ==
    pc = "cmp_equal" =>
        /\ (/\ IsTime(cmpA) /\ IsTime(cmpB)
            /\ cmpA.mer # MerNone /\ cmpB.mer = MerNone
            /\ Hour24(cmpA) = Hour24(cmpB) /\ cmpA.m = cmpB.m) => cmpOut[1] = TRUE
        /\ (IsTimeText(cmpA, Txt_2_30_PM) /\ IsTimeText(cmpB, Txt_2_30_AM)) => cmpOut[1] = FALSE

\* C4 amended: for two whole times equalStrictOrFlexible is true exactly when the
\* 24-hour hour and minute agree and both carry the same AM/PM marker or neither
\* carries one (seconds ignored); so ("2:30 PM", "14:30:00") is false, as is
\* ("2:30 PM", "2:30 AM").
C4_Amended ==
    (pc = "cmp_equal" /\ IsTime(cmpA) /\ IsTime(cmpB)) =>
        /\ cmpOut[1] = TimeEquivalent(cmpA, cmpB)
        /\ (cmpA.mer = MerNone) # (cmpB.mer = MerNone) => cmpOut[1] = FALSE

C4_Witness ==
    /\ pc = "cmp_equal"
    /\ IsTimeText(cmpA, Txt_2_30_PM)
    /\ IsTimeText(cmpB, Txt_14_30_00)
    /\ cmpOut = <<FALSE, FALSE>>

\* C5: times_equal_flexible(a, b) holds exactly when both are whole times, their
\* 24-hour (hour, minute) pairs are equal with the seconds ignored (12 AM is hour
\* 0, PM adds 12 except at 12), and neither has a meridian or both have the same
\* one; a value that is not wholly a time is time-equal to nothing.
C5_TimeEquivalence ==
    pc = "cmp_time" =>
        cmpOut = <<TimeEquivalent(cmpA, cmpB), TimeEquivalent(cmpB, cmpA)>>

\* 12:30 AM against 00:30:00am: hour 0 on both sides, the seconds ignored
C5_Witness ==
    /\ pc = "cmp_time"
    /\ IsTime(cmpA) /\ IsTime(cmpB)
    /\ cmpA.h = 12 /\ cmpA.mer = "AM" /\ cmpB.h = 0 /\ cmpB.mer = "AM"
    /\ cmpA.s = NoSec /\ cmpB.s # NoSec
    /\ cmpOut[1] = TRUE

\* the (year, month, day) the claim gives a value, or None
DateOfComponents(x) ==
    IF x.kind # "date" \/ x.style = "glued" THEN None
    ELSE LET mo == IF x.form = "iso" THEN x.a
                   ELSE IF x.a > 12 /\ x.b <= 12 THEN x.b ELSE x.a
             d  == IF x.form = "iso" THEN x.b
                   ELSE IF x.a > 12 /\ x.b <= 12 THEN x.a ELSE x.b
         IN IF mo \in 1..12 /\ d \in 1..31 THEN <<x.y, mo, d>> ELSE None

DateEquivalent(x, y) ==
    /\ DateOfComponents(x) # None
    /\ DateOfComponents(y) # None
    /\ DateOfComponents(x) = DateOfComponents(y)

IsDmy(x, a, b, y, style) ==
    x.kind = "date" /\ x.form = "dmy" /\ x.a = a /\ x.b = b /\ x.y = y /\ x.style = style

\* C6: dates_equal_flexible parses each side to (year, month, day), swapping the
\* first two components of D/M/Y when the first exceeds 12 and the second does
\* not, rejects a month outside 1..12 and a day outside 1..31, and is true iff
\* both sides parse to the same triple; it is symmetric, and
\* equalStrictOrFlexible has "03/04/2024" = "3-4-2024" and
\* "13/04/2024" = "04/13/2024" in both argument orders.
C6_DateEquivalence ==
    /\ pc = "cmp_date" =>
          /\ cmpOut[1] = DateEquivalent(cmpA, cmpB)
          /\ cmpOut[2] = cmpOut[1]
    /\ (/\ pc = "cmp_equal"
        /\ \/ IsDmy(cmpA, 3, 4, 2024, "slash") /\ IsDmy(cmpB, 3, 4, 2024, "dash")
           \/ IsDmy(cmpA, 13, 4, 2024, "slash") /\ IsDmy(cmpB, 4, 13, 2024, "slash"))
       => cmpOut = <<TRUE, TRUE>>

\* 13/04/2024 against 04/13/2024
C6_Witness ==
    /\ pc = "cmp_date"
    /\ IsDmy(cmpA, 13, 4, 2024, "slash")
    /\ IsDmy(cmpB, 4, 13, 2024, "slash")
    /\ cmpOut = <<TRUE, TRUE>>

(***************************************************************************)
(* Claims about a run of main (checked under Spec)                         *)
(***************************************************************************)
\* value, which is not empty, occurs in text letter for letter, the case of the
\* letters aside, with no letter or digit right before it and none right after
AnchoredOccurrence(value, text) ==
    /\ value # <<>>
    /\ \E p \in 1..(Len(text) - Len(value) + 1) :
          /\ upper(SubSeq(text, p, p + Len(value) - 1)) = upper(value)
          /\ (p = 1 \/ text[p - 1] \notin ALNUM)
          /\ (p + Len(value) > Len(text) \/ text[p + Len(value)] \notin ALNUM)

\* C2: the row of a field whose non-empty expected value occurs in the barcode
\* text as a token-anchored, case-insensitive occurrence has status MATCH or
\* MISMATCH, never MISSING, whatever the assignment decided for the field.
C2_AnchoredNeverMissing ==
    \A k \in 1..Len(rows) :
        AnchoredOccurrence(expected[k].value, barcode_text)
            => rows[k].status \in {"MATCH", "MISMATCH"}

\* pairs were parsed, a field was assigned none of them, and its value, which
\* occurs anchored in the text, was found by the search of the text
C2_Witness ==
    /\ pc = "done"
    /\ labeled_pairs # <<>>
    /\ \E k \in 1..Len(rows) :
          /\ AssignedCol(row_idx, col_idx, k) = 0
          /\ AnchoredOccurrence(expected[k].value, barcode_text)
          /\ rows[k].status = "MISMATCH"

\* C7: when the barcode text is empty no pair is parsed, no field is assigned,
\* every expected field gets a row with status MISSING, and the summary is
\* {matched: 0, mismatched: 0, missing: M} for M expected fields.
C7_EmptyTextAllMissing ==
    barcode_text = <<>> =>
        /\ labeled_pairs = <<>>
        /\ row_idx = <<>> /\ col_idx = <<>>
        /\ \A k \in 1..Len(rows) : rows[k].status = "MISSING"
        /\ summary = [matched |-> 0, mismatched |-> 0, missing |-> Len(rows)]
        /\ pc = "done" => Len(rows) = Len(expected)

\* a run on the empty text has reported two expected fields
C7_Witness ==
    /\ barcode_text = <<>>
    /\ pc = "done"
    /\ Len(expected) = 2
    /\ summary.missing = 2

\* the run has parsed the text and got no pair
ZeroPairsParsed == pc # "main" /\ labeled_pairs = <<>>

\* C8 as stated: when zero pairs are parsed from the barcode text, the status of
\* every expected field is MISSING.
C8_Original ==
    ZeroPairsParsed => \A k \in 1..Len(rows) : rows[k].status = "MISSING"

\* C8, amended: when zero pairs are parsed no field is assigned a pair; a field
\* whose value the strict search finds in the text is MISMATCH, every other
\* field is MISSING, and no field is MATCH.
C8_Amended ==
    ZeroPairsParsed =>
        /\ row_idx = <<>>
        /\ summary.matched = 0
        /\ \A k \in 1..Len(rows) :
              rows[k].status =
                  IF find_value_in_text_strict(expected[k].value, barcode_text) = None
                  THEN "MISSING" ELSE "MISMATCH"

\* no pair was parsed from a text that is not empty; one field was found in the
\* text and one was not
C8_Witness ==
    /\ pc = "done"
    /\ labeled_pairs = <<>>
    /\ barcode_text # <<>>
    /\ \E k \in 1..Len(rows) : rows[k].status = "MISMATCH"
    /\ \E k \in 1..Len(rows) : rows[k].status = "MISSING"

\* C9 as stated: when the solver is unavailable (scipy or numpy does not import)
\* or throws while solving, the engine falls back to greedy_assign and still
\* returns rows and a summary: no failure of the solver reaches the caller.
C9_SolverFailureNeverPropagates ==
    /\ error # "solver"
    /\ (pc = "assigned" /\ ~(HAS_SCIPY /\ has_numpy)) => path = "greedy"

\* C10: with an empty expected mapping the engine produces no row and the
\* summary {matched: 0, mismatched: 0, missing: 0} and raises nothing, for every
\* barcode text, with the solver importable or not: the cost matrix has no row
\* and no pairing is made.
C10_EmptyExpected ==
    expected = <<>> =>
        /\ C = <<>>
        /\ row_idx = <<>> /\ col_idx = <<>>
        /\ rows = <<>>
        /\ summary = NoSummary
        /\ error = ""
        /\ pc # "raised"

\* a run with no expected field, the solver importable and pairs parsed from the
\* text, has ended
C10_Witness ==
    /\ expected = <<>>
    /\ pc = "done"
    /\ HAS_SCIPY /\ has_numpy
    /\ labeled_pairs # <<>>
    /\ path = "greedy"

(***************************************************************************)
(* main from the two JSON files (lines 676-683), on the shapes they may    *)
(* hold: the decoder's list empty, its first object without a text or with *)
(* a null text; an expected object with an empty key, a null or a number   *)
(* as a value, a value that ends with a hyphen, or a list in place of the  *)
(* object.  The decoder's result is a list of objects in every input here. *)
(***************************************************************************)
Field_Unkeyed == Item(<<>>, <<"T", "R", "K", "-", "9", "9", "8">>)
Field_NullValue == Item(<<"T", "r", "u", "c", "k">>, JsonNull)
Field_NumberValue == Item(<<"G", "a", "t", "e">>, JsonNumber(<<"1", "2">>))
Field_Partial == Item(<<"S", "e", "a", "l">>, <<"T", "R", "K", "-">>)

ExpectedShapes ==
    {<<>>, JsonList} \cup
    {<<f>> : f \in ExpectedFields \cup
               {Field_Unkeyed, Field_NullValue, Field_NumberValue, Field_Partial}}

BarcodeShapes ==
    {<<>>, <<[symbology |-> "QR"]>>, <<[text |-> JsonNull]>>} \cup
    {<<[text |-> t]>> : t \in BarcodeTexts}

InitInputs ==
    /\ pc = "load"
    /\ CompareIdle
    /\ HAS_SCIPY \in BOOLEAN
    /\ has_numpy \in BOOLEAN
    /\ assign_thresh = 300 * LabelScale
    /\ C = <<>>
    /\ used_i = {} /\ used_j = {} /\ row_idx = <<>> /\ col_idx = <<>>
    /\ path = "none"
    /\ error = ""
    /\ barcode_data \in BarcodeShapes
    /\ expected \in ExpectedShapes
    /\ barcode_text = <<>>
    /\ harvest_raw \in BOOLEAN
    /\ strict_strings \in BOOLEAN
    /\ labeled_pairs = <<>> /\ lib_entries = <<>>
    /\ rows = <<>> /\ summary = NoSummary /\ missed = <<>>
    /\ run = 1 /\ first_report = None /\ solved = None
    /\ ParseIdle

\* lines 681-683
LoadInputs ==
    /\ pc = "load"
    /\ IF barcode_data = <<>>
       THEN /\ pc' = "raised"
            /\ error' = "ValueError"
            /\ UNCHANGED barcode_text
       ELSE /\ pc' = "main"
            /\ barcode_text' = IF "text" \in DOMAIN barcode_data[1]
                               THEN barcode_data[1].text ELSE <<>>
            /\ UNCHANGED error
    /\ UNCHANGED <<cmpVars, configVars, C, assignVars, barcode_data, expected, harvest_raw,
                   strict_strings, libVars, reportVars, runVars, solved, parseVars>>

NextInputs == LoadInputs \/ Next

SpecInputs == InitInputs /\ [][NextInputs]_vars

(***************************************************************************)
(* Claims about two runs of main on the same inputs (checked under         *)
(* SpecRerun)                                                              *)
(***************************************************************************)
\* C3 as stated: the second run on the same barcode text, expected object and
\* options ends with the report of the first run: the same rows in the same
\* order, the same summary, the same missed list with the same labels in the
\* same order.
C3_RerunIdentical ==
    (run = 2 /\ pc = "done") => Report = first_report

(***************************************************************************)
(* Claims about the rows and the summary of a run (checked under Spec)     *)
(***************************************************************************)
CountStatus(rows_, status) == Cardinality({k \in 1..Len(rows_) : rows_[k].status = status})

\* C11: the rows are one per expected field, in the order of the expected
\* mapping (row k carries the key and the value of field k), each with a status
\* among MATCH, MISMATCH and MISSING; the
\* three counts of the summary are the numbers of rows with each status, and
\* they add up to the number of expected fields when the run has ended.
C11_RowsAndSummary ==
    /\ Len(rows) <= Len(expected)
    /\ pc = "done" => Len(rows) = Len(expected)
    /\ \A k \in 1..Len(rows) :
          /\ rows[k].key = expected[k].key
          /\ rows[k].ocr = expected[k].value
          /\ rows[k].status \in {"MATCH", "MISMATCH", "MISSING"}
    /\ summary.matched = CountStatus(rows, "MATCH")
    /\ summary.mismatched = CountStatus(rows, "MISMATCH")
    /\ summary.missing = CountStatus(rows, "MISSING")
    /\ summary.matched + summary.mismatched + summary.missing = Len(rows)

\* a run has ended with two rows, one of them MISMATCH and the other not
C11_Witness ==
    /\ pc = "done"
    /\ Len(rows) = 2
    /\ Len(expected) = 2
    /\ summary.mismatched = 1
    /\ summary.matched + summary.missing = 1

(***************************************************************************)
(* Claims about classify_value (checked under SpecClassify)                *)
(***************************************************************************)
ValueClasses ==
    {"empty", "time", "date", "truck", "wh", "rack", "alnum_long", "code_short",
     "small_int", "string"}

\* the classes whose pattern may occur anywhere in the value, in the order of
\* the cascade
CascadeOrder == <<"time", "date", "truck", "wh", "rack", "alnum_long", "code_short">>

IsBlank(text) == \A k \in 1..Len(text) : text[k] \in Space

\* the shapes that occur in the value of the input x
ShapesOf(x) == x.first.shapes \cup x.second.shapes

\* the first class of the cascade for a value with the shapes sh: small_int
\* needs the whole value to be the digits
FirstClass(x, sh) ==
    IF IsBlank(ClassifyText(x)) THEN "empty"
    ELSE IF \E k \in 1..Len(CascadeOrder) : CascadeOrder[k] \in sh
    THEN CascadeOrder[MinOf({k \in 1..Len(CascadeOrder) : CascadeOrder[k] \in sh})]
    ELSE IF x.second = NoToken /\ "small_int" \in sh THEN "small_int"
    ELSE "string"

ClassifiedIs(text, class) == ClassifyText(cmpA) = text => cmpOut = class

\* C12: classify returns a class for every value, the first class in the order
\* empty, time, date, truck, wh, rack, alnum_long, code_short, small_int whose
\* pattern matches the value, and string when none does; "10:15 AM" is time,
\* "04/25/2024" date, "TRK-1234" truck, "WH-07" wh (not rack), "A12B34C5"
\* alnum_long and "7" small_int.
C12_ClassifyCascade ==
    pc = "classified" =>
        /\ cmpOut \in ValueClasses
        /\ cmpOut = FirstClass(cmpA, ShapesOf(cmpA))
        /\ ClassifiedIs(<<"1", "0", ":", "1", "5", " ", "A", "M">>, "time")
        /\ ClassifiedIs(<<"0", "4", "/", "2", "5", "/", "2", "0", "2", "4">>, "date")
        /\ ClassifiedIs(<<"T", "R", "K", "-", "1", "2", "3", "4">>, "truck")
        /\ ClassifiedIs(<<"W", "H", "-", "0", "7">>, "wh")
        /\ ClassifiedIs(<<"A", "1", "2", "B", "3", "4", "C", "5">>, "alnum_long")
        /\ ClassifiedIs(<<"7">>, "small_int")

\* "WH-07", which the warehouse pattern and the rack pattern both match, has
\* been classified
C12_Witness ==
    /\ pc = "classified"
    /\ ClassifyText(cmpA) = <<"W", "H", "-", "0", "7">>
    /\ {"wh", "rack"} \subseteq ShapesOf(cmpA)
    /\ cmpOut = "wh"

(***************************************************************************)
(* Claims about main on every shape of its inputs (checked under           *)
(* SpecInputs)                                                             *)
(***************************************************************************)
\* the entry e of the library is in the missed list, under its key
Listed(e) ==
    \E k \in 1..Len(missed) :
        /\ missed[k].class = e.class
        /\ norm_case_space(missed[k].value) = norm_case_space(e.value)

\* the value is the barcode value of a MATCH or MISMATCH row
ReportedInRow(value) ==
    \E k \in 1..Len(rows) :
        /\ rows[k].status \in {"MATCH", "MISMATCH"}
        /\ equal_strict_or_flexible(value, rows[k].barcode_value)

\* C13 as stated: the missed list is the library minus the consumed values: an
\* entry of the library is listed, under its (normalized value, class) key, if
\* and only if its value equals, under equal_strict_or_flexible, the barcode
\* value of no MATCH or MISMATCH row; so no missed entry repeats a value a row
\* reports.
C13_MissedIsLibraryMinusReported ==
    pc = "done" =>
        /\ \A k \in 1..Len(lib_entries) :
              Listed(lib_entries[k]) <=> ~ReportedInRow(lib_entries[k].value)
        /\ \A k \in 1..Len(missed) : ~ReportedInRow(missed[k].value)

\* C14 as stated: main raises no exception for any shape of its inputs: an
\* empty decoder result list, a first result whose text is missing or null, an
\* expected mapping with null or non-string values, or an expected input that
\* is not a mapping: each run goes on to a report.
C14_NoExceptionForAnyShape ==
    /\ error \notin {"ValueError", "AttributeError"}
    /\ pc = "raised" => error = "solver"

(***************************************************************************)
(* Claims about the assignment under two thresholds (checked under         *)
(* SpecAssign)                                                             *)
(***************************************************************************)
\* the pairings (ri, cj) as a sequence of cells
CellsOf(ri, cj) == [k \in 1..Len(ri) |-> <<ri[k], cj[k]>>]

IsPrefix(s, t) == Len(s) <= Len(t) /\ \A k \in 1..Len(s) : s[k] = t[k]

Range(s) == {s[k] : k \in 1..Len(s)}

\* what greedy_assign accepts of the matrix C with the threshold t
GreedyAccepted(t) == LET Cells(r) == CellsOf(r[1], r[2]) IN Cells(greedy_assign(C, t))

\* what the filter keeps of the solver's answer to the matrix C with the
\* threshold t
SolverAccepted(t) == SolverFilter(C, CellsByRow(solved[1]), t)

\* C15: for one cost matrix and thresholds t1 <= t2, what is accepted with t1
\* is among what is accepted with t2: on the solver path as a set, the solver
\* giving one answer for the matrix, and on the greedy path as a prefix of
\* the sequence of picks.  The run of the state is compared with the run on
\* every other threshold.
C15_ThresholdMonotone ==
    pc = "assigned" =>
        \A t \in ThreshValues :
            LET Mine == CellsOf(row_idx, col_idx)
            IN IF path = "greedy"
               THEN /\ assign_thresh <= t => IsPrefix(Mine, GreedyAccepted(t))
                    /\ t <= assign_thresh => IsPrefix(GreedyAccepted(t), Mine)
               ELSE /\ assign_thresh <= t => Range(Mine) \subseteq Range(SolverAccepted(t))
                    /\ t <= assign_thresh => Range(SolverAccepted(t)) \subseteq Range(Mine)

\* greedy_assign has accepted one pairing, and accepts a second one with a
\* higher threshold
C15_Witness ==
    /\ pc = "assigned"
    /\ path = "greedy"
    /\ Len(row_idx) = 1
    /\ \E t \in ThreshValues : assign_thresh < t /\ Len(GreedyAccepted(t)) = 2

(***************************************************************************)
(* Claims about the barcode library (checked under Spec, on the state      *)
(* build_barcode_library returns to)                                       *)
(***************************************************************************)
NotStringClass(e) == e.class # "string"

\* the library of the run's text and harvest_raw with the other setting of
\* strict_strings
OtherStrictness == LibraryEntries(labeled_pairs, barcode_text, harvest_raw, ~strict_strings)

\* the strict library is within the relaxed one, and the two hold the same
\* entries of the classes other than string, in the same order
OnlyTightens(strict, relaxed) ==
    /\ Range(strict) \subseteq Range(relaxed)
    /\ SelectSeq(strict, NotStringClass) = SelectSeq(relaxed, NotStringClass)

\* C16: for one barcode text and one setting of harvest_raw, every entry the
\* library keeps with strict_strings is kept without it, and the two libraries
\* differ only in entries whose value class is string.
C16_StrictOnlyTightens ==
    pc = "library" =>
        IF strict_strings THEN OnlyTightens(lib_entries, OtherStrictness)
        ELSE OnlyTightens(OtherStrictness, lib_entries)

\* a strict library that holds entries, built from a text whose relaxed library
\* holds more
C16_Witness ==
    /\ pc = "library"
    /\ strict_strings
    /\ lib_entries # <<>>
    /\ Len(OtherStrictness) > Len(lib_entries)

\* the entries kept from the parsed pairs (lines 370-407), which the library
\* starts with
PairDerived == LabeledEntries(labeled_pairs, 1, strict_strings)

Keys(entries) == {EntryKey(entries[k]) : k \in 1..Len(entries)}

\* the library is the pair-derived entries followed by harvested entries with
\* distinct keys, none of them the key of a pair-derived entry
HarvestAddsNewKeysOnce(base, harvested) ==
    /\ lib_entries = base \o harvested
    /\ \A a, b \in 1..Len(harvested) :
          a # b => EntryKey(harvested[a]) # EntryKey(harvested[b])
    /\ Keys(harvested) \cap Keys(base) = {}
    /\ ~harvest_raw => harvested = <<>>

\* C17: in the library build_barcode_library returns, each (normalized value,
\* class) key holds at most one harvested entry, a key holds a harvested entry
\* only if no pair-derived entry was kept under it, and with harvest_raw off
\* the library holds pair-derived entries only.
C17_HarvestNeverDuplicates ==
    pc = "library" =>
        LET Split(base) ==
                /\ Len(base) <= Len(lib_entries)
                /\ HarvestAddsNewKeysOnce(base, SubSeq(lib_entries, Len(base) + 1, Len(lib_entries)))
        IN Split(PairDerived)

\* the harvest has added an entry to a library with a pair-derived entry, from
\* a text in which the value of that pair is matched again by a harvest pattern
C17_Witness ==
    /\ pc = "library"
    /\ harvest_raw
    /\ PairDerived # <<>>
    /\ Len(lib_entries) > Len(PairDerived)
    /\ \E k \in 1..Len(PairDerived) :
          /\ PairDerived[k].class = "wh"
          /\ \E h \in 1..Len(RxFindAll("WH_RX", barcode_text)) :
                norm_case_space(RxFindAll("WH_RX", barcode_text)[h]) = EntryKey(PairDerived[k])[1]

(***************************************************************************)
(* Claims about greedy_assign and the solver's filter (checked under       *)
(* SpecAssign)                                                             *)
(***************************************************************************)
\* the cells of the matrix whose row and column are both unused
UnusedCells(ui, uj) ==
    {c \in (1..Len(C)) \X (1..(IF C = <<>> THEN 0 ELSE Len(C[1]))) :
        c[1] \notin ui /\ c[2] \notin uj}

\* a turn of the loop that accepts a cell accepts one of least cost among the
\* cells unused before the turn
AcceptsLeast ==
    (pc = "greedy" /\ Len(row_idx') = Len(row_idx) + 1) =>
        LET i == row_idx'[Len(row_idx')]
            j == col_idx'[Len(col_idx')]
        IN /\ <<i, j>> \in UnusedCells(used_i, used_j)
           /\ \A c \in UnusedCells(used_i, used_j) : C[i][j] <= C[c[1]][c[2]]
           /\ used_i' = used_i \cup {i} /\ used_j' = used_j \cup {j}

\* the loop ends only when every cell unused then costs more than the threshold
StopsOnlyAboveThreshold ==
    (pc = "greedy" /\ pc' = "assigned") =>
        /\ row_idx' = row_idx /\ col_idx' = col_idx
        /\ \A c \in UnusedCells(used_i, used_j) : C[c[1]][c[2]] > assign_thresh
        /\ used_i = Range(row_idx) /\ used_j = Range(col_idx)

\* C18: each step of greedy_assign accepts a cell of least cost among the cells
\* whose row and column are both unused, and the loop stops only when no such
\* cell costs at most thresh: on return C[i][j] > thresh for every unassigned
\* row i and unused column j.
C18_GreedyLeastThenStop == [][AcceptsLeast /\ StopsOnlyAboveThreshold]_vars

\* greedy_assign has returned one pairing of a 2 x 2 matrix: the cell left over
\* costs more than the threshold
C18_Witness ==
    /\ pc = "assigned"
    /\ path = "greedy"
    /\ Len(C) = 2 /\ Len(C[1]) = 2
    /\ Len(row_idx) = 1
    /\ \E c \in UnusedCells(Range(row_idx), Range(col_idx)) : C[c[1]][c[2]] > assign_thresh

\* the cells the solver proposed for the matrix of the run
Proposed == solved[1]

\* C19: on the solver path the accepted pairings are the proposed ones that cost
\* at most assign_thresh; a field whose proposed pairing costs more has no
\* pairing at all when the assignment returns, whatever other pairs there are:
\* it is not paired again, not even with a pair within the threshold that no
\* accepted pairing uses.
C19_SolverDropIsFinal ==
    (pc = "assigned" /\ path = "solver") =>
        /\ Range(CellsOf(row_idx, col_idx))
               = {c \in Proposed : C[c[1]][c[2]] <= assign_thresh}
        /\ \A c \in Proposed :
              C[c[1]][c[2]] > assign_thresh => AssignedCol(row_idx, col_idx, c[1]) = 0

\* the solver's pairing of a field was dropped, and a pair within the threshold
\* for that field is used by no accepted pairing
C19_Witness ==
    /\ pc = "assigned"
    /\ path = "solver"
    /\ \E c \in Proposed :
          /\ C[c[1]][c[2]] > assign_thresh
          /\ AssignedCol(row_idx, col_idx, c[1]) = 0
          /\ \E j \in 1..Len(C[c[1]]) :
                /\ C[c[1]][j] <= assign_thresh
                /\ j \notin Range(col_idx)

\* the piece of text is the value, letter case aside, with one or more
\* whitespace characters for each space of the value
RECURSIVE FlexEq(_, _)
FlexEq(value, piece) ==
    IF value = <<>> THEN piece = <<>>
    ELSE IF value[1] = " "
    THEN \E n \in 1..Len(piece) :
            /\ \A m \in 1..n : piece[m] \in Space
            /\ FlexEq(Tail(value), SubSeq(piece, n + 1, Len(piece)))
    ELSE /\ piece # <<>>
         /\ ToUpper(piece[1]) = ToUpper(value[1])
         /\ FlexEq(Tail(value), Tail(piece))

\* the value occurs in the text as a token: case-insensitive, whitespace-
\* tolerant, with no letter or digit adjoining the occurrence
TokenAnchoredOccurrence(value, text) ==
    /\ value # <<>>
    /\ \E i \in 1..Len(text) : \E j \in i..Len(text) :
          /\ j - i + 1 >= Len(value)
          /\ i = 1 \/ text[i - 1] \notin ALNUM
          /\ j = Len(text) \/ text[j + 1] \notin ALNUM
          /\ FlexEq(value, SubSeq(text, i, j))

\* the status the rule gives the field item, assigned the pair of column j
\* (0 when it is assigned none)
StatusByRule(item, j) ==
    IF j # 0
    THEN IF equal_strict_or_flexible(item.value, labeled_pairs[j].value)
         THEN "MATCH" ELSE "MISMATCH"
    ELSE IF TokenAnchoredOccurrence(item.value, barcode_text) THEN "MISMATCH"
    ELSE "MISSING"

\* C20 as stated: a row is MATCH if and only if its field is assigned and its
\* value equals the value of the assigned pair under equal_strict_or_flexible,
\* MISSING if and only if the field is unassigned and its value has no
\* token-anchored occurrence in the barcode text, and MISMATCH in every other
\* case; so the row of an unassigned field is never MATCH.
C20_RowStatusRule ==
    \A k \in 1..Len(rows) :
        /\ rows[k].status
               = StatusByRule(expected_items(expected)[k], AssignedCol(row_idx, col_idx, k))
        /\ AssignedCol(row_idx, col_idx, k) = 0 => rows[k].status # "MATCH"

(***************************************************************************)
(* Claims about the cost matrix of a run (checked under Spec).  Costs are  *)
(* in units of 1 / CostUnit: 0.6 is 240 * LabelScale, 0.35 * 0.75 is       *)
(* 105 * LabelScale, 0.35 is 140 * LabelScale, 0.05 * 0.25 is              *)
(* 5 * LabelScale, 1.5 is 600 * LabelScale.                                *)
(***************************************************************************)
\* the cost matrix of the run has been computed
CostBuilt == pc \in {"solve", "solver", "greedy", "assigned", "done"}

\* the cost is 0.6 * labelCost + 0.35 * valueCost + 0.05 * classPenalty for a
\* labelCost in [0, 1], a valueCost in {0, 0.75, 1} and a classPenalty in
\* {0, 0.25}
IsWeightedCost(cost) ==
    \E vc \in {0, 105 * LabelScale, 140 * LabelScale} : \E cp \in {0, 5 * LabelScale} :
        /\ cost - vc - cp >= 0
        /\ cost - vc - cp <= 240 * LabelScale

\* C21: the cost matrix has a row for every expected field and a cell for
\* every parsed pair; every cell is 0.6 * labelCost + 0.35 * valueCost +
\* 0.05 * classPenalty with labelCost in [0, 1], valueCost in {0, 0.75, 1} and
\* classPenalty in {0, 0.25}, so it lies in [0, 1] and none keeps the ceiling
\* 1.5; the cells an assignment may use are all the cells whose row and
\* column are unused, whatever they cost.
C21_CellsWithinUnit ==
    CostBuilt =>
        /\ Len(C) = Len(expected)
        /\ \A i \in 1..Len(C) :
              /\ Len(C[i]) = Len(labeled_pairs)
              /\ \A j \in 1..Len(C[i]) :
                    /\ IsWeightedCost(C[i][j])
                    /\ C[i][j] >= 0 /\ C[i][j] <= CostUnit
                    /\ C[i][j] # 600 * LabelScale
        /\ pc = "greedy" =>
              GreedyCells(GreedyDims(C), used_i, used_j) = UnusedCells(used_i, used_j)

\* the matrix of a run has a cell of the greatest cost 0.9625 and a cell within
\* the threshold, which was accepted
C21_Witness ==
    /\ pc = "assigned"
    /\ \E i \in 1..Len(C) : \E j \in 1..Len(C[i]) : C[i][j] = 385 * LabelScale
    /\ \E k \in 1..Len(row_idx) : C[row_idx[k]][col_idx[k]] <= assign_thresh

\* the occurrence found (Python's offsets: it is text[start + 1 .. end]) has no
\* letter or digit right before it or right after it
NotAdjoined(found, text) ==
    /\ found[1] >= 1 => text[found[1]] \notin ALNUM
    /\ found[2] < Len(text) => text[found[2] + 1] \notin ALNUM

FoundIsToken(found, text) == found # None => NotAdjoined(found, text)

\* C22 as stated: the strict search counts a value as present in the text only
\* at an occurrence with no letter or digit directly before or after it, for
\* every value, also one that begins or ends with a character that is neither.
\* Stated of the search each reported field went through.
C22_FoundOnlyAsToken ==
    \A k \in 1..Len(rows) :
        FoundIsToken(find_value_in_text_strict(rows[k].ocr, barcode_text), barcode_text)

(***************************************************************************)
(* Claims about the class penalty (checked under SpecPenalty)              *)
(***************************************************************************)
\* the two values are of one class, or are the same full time, or contain the
\* same date
NoPenaltyByRule(a, b) ==
    \/ a.class = b.class
    \/ (a.time # None /\ b.time # None /\ a.time = b.time)
    \/ (a.date # None /\ b.date # None /\ a.date = b.date)

\* C23 as stated: the class penalty of pair_cost is 0 exactly when the expected
\* value and the pair's value have the same class, or both are the same full
\* time, or both contain equal dates; it is 0.25 (here 0.05 * 0.25, that is
\* 5 * LabelScale) in every other case, also for two values of different
\* classes that contain different dates.
C23_ClassPenaltyRule ==
    pc = "penalised" =>
        cmpOut[1] = IF NoPenaltyByRule(cmpA, cmpB) THEN 0 ELSE 5 * LabelScale

(***************************************************************************)
(* Claims about labels_match (checked under SpecLabels).  The state holds  *)
(* the label cost 0.6 * (1 - similarity): it is 0 for the similarity 1.0   *)
(* and 240 * LabelScale for the similarity 0.0.                            *)
(***************************************************************************)
\* C24 as stated: the similarity of a key and a label is 1.0 whenever the two
\* are identical after label normalization, also when both normalize to the
\* empty string, and otherwise a ratio within [0, 1].
C24_IdenticalLabelsMatch ==
    pc = "labels_matched" =>
        /\ cmpA.norm = cmpB.norm => cmpOut[1] = 0
        /\ cmpOut[1] >= 0 /\ cmpOut[1] <= 240 * LabelScale

(***************************************************************************)
(* Claims about parse_pairs_for_context (checked under SpecParse)          *)
(***************************************************************************)
\* the place of the first occurrence of x in the sequence s
FirstAt(s, x) == CHOOSE k \in 1..Len(s) : s[k] = x /\ \A h \in 1..(k - 1) : s[h] # x

\* C25: the returned list has no two pairs of the same label and value, holds
\* every pair an extraction step emitted, in the order of the first emissions,
\* and holds no pair with an empty label or an empty value.
C25_DedupedInEmissionOrder ==
    pc = "parsed" =>
        /\ \A h, k \in 1..Len(labeled_pairs) :
               <<labeled_pairs[h].label, labeled_pairs[h].value>>
                   = <<labeled_pairs[k].label, labeled_pairs[k].value>> => h = k
        /\ Range(labeled_pairs) = Range(parse_pairs)
        /\ \A h, k \in 1..Len(labeled_pairs) :
               h < k => FirstAt(parse_pairs, labeled_pairs[h]) < FirstAt(parse_pairs, labeled_pairs[k])
        /\ \A k \in 1..Len(labeled_pairs) :
               labeled_pairs[k].label # <<>> /\ labeled_pairs[k].value # <<>>

\* a pair emitted twice, with another pair emitted in between, was returned once
C25_Witness ==
    /\ pc = "parsed"
    /\ \E h, k, l \in 1..Len(parse_pairs) :
           h < k /\ k < l /\ parse_pairs[h] = parse_pairs[l] /\ parse_pairs[k] # parse_pairs[h]
    /\ Len(labeled_pairs) >= 2
    /\ Len(labeled_pairs) < Len(parse_pairs)


\* the pairs of a header row and its value row, cell by cell
ZipOf(header, values) ==
    [k \in 1..Len(header.fields) |-> Pair(header.fields[k], values.fields[k])]

\* an iteration that zips the header at the cursor to the value row r: only
\* blank lines lie between the two, the pairs added are the header's inline
\* pairs and the zip, and the cursor is left behind the value row
ZipsPast(r) ==
    /\ r > parse_i
    /\ \A k \in (parse_i + 1)..(r - 1) : cmpA[k].text = <<>>
    /\ Len(cmpA[r].fields) = Len(cmpA[parse_i].fields)
    /\ cmpA[r].valueish /\ ~cmpA[parse_i].valueish
    /\ parse_pairs' = parse_pairs \o cmpA[parse_i].inline \o ZipOf(cmpA[parse_i], cmpA[r])
    /\ parse_i' = r + 1

IterationAdvances ==
    /\ pc = "parse_loop" /\ pc' = "parse_loop" => parse_i' > parse_i
    /\ \A r \in value_rows' \ value_rows : ZipsPast(r)

\* C26: every iteration of the loop moves the line cursor forward; after a
\* header was zipped to its value row the cursor is behind the value row and
\* the blank lines before it, so that no iteration ever starts on a line that
\* was consumed as a value row; and the extraction finishes.
C26_CursorAdvancesAndFinishes ==
    /\ [][IterationAdvances]_vars
    /\ [](\A r \in value_rows : parse_i > r)
    /\ <>(pc = "parsed")

\* a header, a blank line and the value row: the third line was zipped
C26_Witness ==
    /\ pc = "parsed"
    /\ 3 \in value_rows
    /\ cmpA[2].text = <<>>
    /\ Len(parse_pairs) = Len(cmpA[1].fields)


\* the line at the cursor is not skipped and splits into exactly two fields
TwoFields(line) == ~line.skipped /\ Len(line.fields) = 2

BothColonCells(line) == line.colon[1] /\ line.colon[2]

\* what an iteration appends for a line of two fields
TwoFieldPairs(line) ==
    line.inline \o (IF BothColonCells(line) THEN <<>>
                    ELSE <<Pair(line.fields[1], line.fields[2])>>)

TwoFieldRule ==
    (pc = "parse_loop" /\ pc' = "parse_loop" /\ TwoFields(cmpA[parse_i])) =>
        /\ parse_pairs' = parse_pairs \o TwoFieldPairs(cmpA[parse_i])
        /\ parse_i' = parse_i + 1

\* C27: an iteration on a line that splits into exactly two fields appends the
\* inline label:value pairs of the line and, unless both fields are
\* label:value cells, exactly one more pair: the first field as the label of
\* the second.  When both are cells it appends nothing more.
C27_TwoFieldLines == [][TwoFieldRule]_vars

\* a line of two label:value cells and then a line of a cell and a plain
\* field were parsed: two inline pairs, then one inline pair and the pair of
\* the two fields
C27_Witness ==
    /\ pc = "parsed"
    /\ Len(cmpA) = 2
    /\ TwoFields(cmpA[1]) /\ BothColonCells(cmpA[1])
    /\ TwoFields(cmpA[2]) /\ cmpA[2].colon[1] /\ ~cmpA[2].colon[2]
    /\ Len(cmpA[1].inline) = 2
    /\ parse_pairs = cmpA[1].inline \o cmpA[2].inline
                         \o <<Pair(cmpA[2].fields[1], cmpA[2].fields[2])>>


(***************************************************************************)
(* Claims about the barcode library (checked under SpecLibrary, SpecMissed)*)
(***************************************************************************)
\* the entry of the pair p is among the entries
Kept(p) == \E k \in 1..Len(lib_entries) : lib_entries[k] = Entry(p.label, p.value, p.class)

\* the entry of the pair p is stored under the key of its value and its class,
\* and under no other key
StoredUnderKey(p) ==
    \A k \in 1..Len(cmpOut) :
        (Entry(p.label, p.value, p.class) \in Range(cmpOut[k].entries))
            <=> (cmpOut[k].key = <<p.norm, p.class>>)

\* C28: a pair with a value is kept when the class of the value is time, date,
\* truck, wh, rack, alnum_long or code_short, whatever its label and the
\* strictness are; a pair of class small_int is kept exactly when its label
\* holds a letter; every kept entry is stored under the key of its normalized
\* value and its class.
C28_KeepRules ==
    pc = "library" =>
        \A p \in {cmpA, cmpB} :
            /\ (p.value # <<>> /\ p.class \in {"time", "date", "truck", "wh", "rack",
                                              "alnum_long", "code_short"}) => Kept(p)
            /\ p.class = "small_int" => (Kept(p) <=> p.letter)
            /\ Kept(p) => StoredUnderKey(p)

\* in strict mode a number under a label without a letter was dropped and a
\* warehouse code under a label without a letter was kept
C28_Witness ==
    /\ pc = "library"
    /\ strict_strings
    /\ \E p \in {cmpA, cmpB} : p.class = "small_int" /\ ~p.letter /\ ~Kept(p)
    /\ \E p \in {cmpA, cmpB} : p.class = "wh" /\ ~p.letter /\ Kept(p)


\* the places of the library entries no consumed value equals
Unconsumed ==
    {k \in 1..Len(lib_entries) :
        ~equals_any_consumed(lib_entries[k].value, ConsumedValues(rows))}

UnconsumedUnder(key) == {k \in Unconsumed : EntryKey(lib_entries[k]) = key}

ClassPriority ==
    <<"alnum_long", "truck", "wh", "rack", "date", "time", "code_short", "small_int",
      "string", "empty">>

PriorityOf(cls) == CHOOSE n \in 1..Len(ClassPriority) : ClassPriority[n] = cls

\* x goes before y: by the priority of the class, then by the value
MissedBefore(x, y) ==
    \/ PriorityOf(x.class) < PriorityOf(y.class)
    \/ /\ x.class = y.class
       /\ x.value # y.value
       /\ StrLE(x.value, y.value, 1)

\* the missed list has one entry for each key of an unconsumed entry, with the
\* number of the unconsumed entries of the key as its count and the labels
\* Shown gives for them, each once; it is sorted
MissedListOf(Shown(_)) ==
    /\ \A m \in 1..Len(missed) :
           /\ UnconsumedUnder(<<norm_case_space(missed[m].value), missed[m].class>>) # {}
           /\ missed[m].count
                  = Cardinality(UnconsumedUnder(<<norm_case_space(missed[m].value), missed[m].class>>))
           /\ Range(missed[m].labels)
                  = {Shown(lib_entries[k].label) :
                         k \in UnconsumedUnder(<<norm_case_space(missed[m].value), missed[m].class>>)}
           /\ Len(missed[m].labels) = Cardinality(Range(missed[m].labels))
    /\ Len(missed) = Cardinality({EntryKey(lib_entries[k]) : k \in Unconsumed})
    /\ \A h, k \in 1..Len(missed) : h < k => MissedBefore(missed[h], missed[k])

AsStored(label) == label

WithPlaceholder(label) == IF label = <<>> THEN Unlabeled ELSE label

\* C29 as stated: missed_by_ocr has one entry per (normalized value, class) key
\* with an unconsumed library entry; its count is the number of the unconsumed
\* entries of the key, its labels are the distinct labels of those entries, and
\* the list is sorted by the class priority and then by value.
C29_Original == pc = "done" => MissedListOf(AsStored)

\* C29 amended: the same, with the labels being the distinct labels of those
\* entries where the empty label of a harvested entry is shown as "(unlabeled)".
C29_Amended == pc = "done" => MissedListOf(WithPlaceholder)

\* a harvested entry without a label is in a missed list of two or more
\* entries
C29_Witness ==
    /\ pc = "done"
    /\ Len(missed) >= 2
    /\ \E m \in 1..Len(missed) : missed[m].labels = <<Unlabeled>>
    /\ \E k \in Unconsumed : lib_entries[k].label = <<>>


(***************************************************************************)
(* Termination of greedy_assign (checked under SpecAssignFair)             *)
(***************************************************************************)
\* a turn of the loop ends it, or marks one row and one column that were not
\* used and appends them to the lists
TurnStopsOrMarks ==
    (pc = "greedy" /\ pc' # "assigned") =>
        \E i \in 1..Len(C) : \E j \in 1..Len(C[i]) :
            /\ i \notin used_i /\ j \notin used_j
            /\ used_i' = used_i \cup {i}
            /\ used_j' = used_j \cup {j}
            /\ row_idx' = Append(row_idx, i)
            /\ col_idx' = Append(col_idx, j)

NoRowsOrNoColumns == C = <<>> \/ C[1] = <<>>

\* C30: greedy_assign terminates on every matrix and threshold; every turn of
\* its loop either ends the loop or marks one new row and one new column as
\* used; it accepts at most min(M, N) pairings; and on a matrix without rows
\* or without columns it returns two empty lists.
C30_GreedyTerminates ==
    /\ [][TurnStopsOrMarks]_vars
    /\ [](path = "greedy" =>
             Len(row_idx) <= Min(Len(C), IF C = <<>> THEN 0 ELSE Len(C[1])))
    /\ [](path = "greedy" /\ pc = "assigned" /\ NoRowsOrNoColumns =>
             row_idx = <<>> /\ col_idx = <<>>)
    /\ (pc = "greedy") ~> (pc = "assigned")

\* greedy_assign returned after accepting a pairing for every row and column
\* of a matrix of two rows and two columns
C30_Witness ==
    /\ pc = "assigned"
    /\ path = "greedy"
    /\ Len(C) = 2 /\ Len(C[1]) = 2
    /\ Len(row_idx) = 2
    /\ used_i = {1, 2} /\ used_j = {1, 2}
====
